---- MODULE Spec2Model ----
(***************************************************************************)
(* Application lifecycle supervisor of the launcher (launcher/             *)
(* app_manager.py, class AppManager): launch_app, start_app, _poll_health, *)
(* wait_for_health, check_health, stop_app, refresh_states and             *)
(* resolve_open_urls, run by one cooperative asyncio event loop, together  *)
(* with the operating-system processes they spawn and terminate.           *)
(*                                                                         *)
(* A coroutine runs without interruption between two awaits.  The variable *)
(* running names the coroutine that holds the event loop (0: the loop is   *)
(* idle); a coroutine gives the loop up only where the code awaits         *)
(* something that really suspends (an HTTP or TCP probe, asyncio.sleep).   *)
(* A run of a coroutine from one await to the next takes no time: process  *)
(* events and clock ticks happen between such runs.                        *)
(* The per-application log file is written but never read by these         *)
(* operations and is not part of this state.                               *)
(***************************************************************************)
EXTENDS Integers, Sequences, FiniteSets, TLC

(* ------------------------------ bounds --------------------------------- *)
MaxElapsed == 2      \* a health-wait sleeps exactly 2 s only while it has waited less than this
MaxClock == 30       \* wall clock readings stop advancing here
MaxProcs == 2        \* processes spawned in one behaviour
MaxLog == 3          \* lines a log file holds
MaxLines == 4        \* the largest `lines` argument read_log is called with
MaxCalls == 2        \* requests (launch, start, stop, get_apps, add, delete) made in one behaviour

(* -------------------------- program constants -------------------------- *)
RetryInterval == 2
DefaultTimeout == 120
ServerErrorFloor == 500
CacheTtl == 30

Stopped == "Stopped"
Starting == "Starting"
Running == "Running"
Error == "Error"
AppStatus == {Stopped, Starting, Running, Error}

Max(S, dflt) == IF S = {} THEN dflt ELSE CHOOSE x \in S : \A y \in S : y <= x
Min(S, dflt) == IF S = {} THEN dflt ELSE CHOOSE x \in S : \A y \in S : x <= y

(* ------------------------------ messages ------------------------------- *)
Msg(text, arg) == [text |-> text, arg |-> arg]
NoMsg == Msg("", "")
None == "None"

(* ------------------------- application specifications ------------------ *)
AppSeq == <<"a1", "a2">>
AppIds == {AppSeq[i] : i \in 1..Len(AppSeq)}

WslIp == "172.20.0.2"

\* an open URL as urlparse splits it: port 0 when the URL names no port, BadPort when
\* reading parsed.port raises ValueError; rest is path, params, query and fragment
BadPort == -1
Url(scheme, username, password, host, port, rest) ==
    [scheme |-> scheme, username |-> username, password |-> password,
     host |-> host, port |-> port, rest |-> rest]
LocalUrl == Url("http", "", "", "localhost", 3000, "/")
LoopUrl == Url("https", "dev", "pw", "127.0.0.1", 8443, "/app?tab=1#top")
UpperUrl == Url("http", "dev", "", "LocalHost", 3000, "/admin")
RemoteUrl == Url("http", "", "", "example.com", 80, "")
NoPortUrl == Url("http", "", "", "localhost", 0, "/docs")
BadPortUrl == Url("http", "", "", "localhost", BadPort, "/")
FileUrl == Url("file", "", "", "", 0, "/srv/readme.html")

PlainWs == [exists |-> TRUE, distro |-> ""]
MissingWs == [exists |-> FALSE, distro |-> ""]
WslWs == [exists |-> TRUE, distro |-> "Ubuntu"]

AppDefinition(ws, nstart, health, ports, open) ==
    [workspace |-> ws, start |-> nstart, health |-> health, ports |-> ports, open |-> open]

CliApp == AppDefinition(PlainWs, 2, <<>>, <<>>, <<FileUrl, LocalUrl>>)
EmptyApp == AppDefinition(PlainWs, 0, <<>>, <<>>, <<LocalUrl>>)
WebApp == AppDefinition(PlainWs, 1, <<1, 3>>, <<>>, <<LocalUrl>>)
PortApp == AppDefinition(PlainWs, 1, <<>>, <<3000, 3001>>, <<LocalUrl, RemoteUrl>>)
BothApp == AppDefinition(PlainWs, 2, <<3>>, <<3000>>, <<LocalUrl>>)
LostApp == AppDefinition(MissingWs, 1, <<3>>, <<>>, <<LocalUrl>>)
LostCliApp == AppDefinition(MissingWs, 1, <<>>, <<>>, <<LocalUrl>>)
WslApp == AppDefinition(WslWs, 1, <<0>>, <<>>, <<LoopUrl, RemoteUrl>>)

(* The application definitions the configuration collaborator may hold.    *)
Definitions == {CliApp, EmptyApp, BothApp, LostApp, LostCliApp, WslApp}

\* a request starts one coroutine, and start_app schedules one more (_poll_health)
MaxTasks == 2 * MaxCalls

(* ------------------------------- state --------------------------------- *)
VARIABLES
    cfg,            \* id -> AppDefinition: the definition of each application
    listed,         \* config_manager.load_apps(): the ids the configuration lists, in order
    logs,           \* the log files: id -> the lines of logs/<id>.log, for the ids that have
                    \*       one. Written by the steps of SpecLog only: the other
                    \*       specifications do not follow what is logged
    app_states,     \* AppManager.app_states: id -> AppState (status, message, last_check)
    processes,      \* AppManager.processes: id -> sequence of Popen handles (pids)
    wsl_ip_cache,   \* AppManager._wsl_ip_cache: distro -> (ip, ts)
    os,             \* operating system: pid -> the process a start step spawned, and its child
    clock,          \* the wall clock read by time.time() and datetime.now()
    tasks,          \* the coroutines in flight and the place each is at
    running,        \* the coroutine holding the event loop, 0 when the loop is idle
    ret,            \* the value a call returns in the step just taken, with what the call did
    calls,          \* the number of requests made so far
    stop_mid        \* id -> a stop_app(id) that found handles ran while only health polls of
                    \*       id were suspended, and no call for id has begun since

vars == <<cfg, listed, logs, app_states, processes, wsl_ip_cache, os, clock, tasks, running, ret, calls, stop_mid>>

TaskIds == 1..MaxTasks

IdleTask ==
    [kind |-> "idle", app |-> "", pc |-> "", ctx |-> "", healthy |-> FALSE,
     step |-> 0, pid |-> 0, elapsed |-> 0, max_timeout |-> 0, idx |-> 0,
     spawned |-> <<>>, survived |-> 0, sched |-> FALSE, quick |-> FALSE,
     touched |-> FALSE, apps |-> <<>>, stale |-> FALSE]

NoRet ==
    [n |-> 0, op |-> "none", app |-> "", ok |-> FALSE, path |-> "", msg |-> NoMsg,
     open_urls |-> <<>>, status |-> "", tracked |-> FALSE, spawned |-> <<>>,
     sched |-> FALSE, same |-> TRUE, had |-> 0, visited |-> 0, faults |-> 0,
     rc |-> None, survivors |-> {}, quick |-> FALSE, observed |-> FALSE, survived |-> 0,
     inputs |-> <<>>, before |-> "", checked |-> FALSE,
     queried |-> FALSE, at |-> 0, since |-> -1, cached |-> -1,
     lines |-> 0, found |-> FALSE, text |-> <<>>, elapsed |-> 0]

\* AppState(status=STOPPED): message and last_check default to None
init_state(a) == [status |-> Stopped, message |-> NoMsg, last_check |-> -1]

Init ==
    /\ \E d \in Definitions : cfg = [a \in {AppSeq[1]} |-> d]
    /\ listed = <<AppSeq[1]>>
    /\ logs = [a \in {} |-> <<>>]
    /\ app_states = [a \in {} |-> init_state(a)]
    /\ processes = [a \in {} |-> <<>>]
    /\ wsl_ip_cache = [d \in {} |-> [ip |-> "", ts |-> 0]]
    /\ os = <<>>
    /\ clock = 0
    /\ tasks = [t \in TaskIds |-> IdleTask]
    /\ running = 0
    /\ ret = NoRet
    /\ calls = 0
    /\ stop_mid = [a \in AppIds |-> FALSE]

(* ------------------------------ helpers -------------------------------- *)
Range(f) == {f[i] : i \in DOMAIN f}

\* d[k] = v for a dictionary kept as a function whose DOMAIN is its key set
Put(d, k, v) == [x \in (DOMAIN d) \cup {k} |-> IF x = k THEN v ELSE d[x]]

\* d.get(k, [])
Lookup(d, k) == IF k \in DOMAIN d THEN d[k] ELSE <<>>

\* del d[k]
Del(d, k) == [x \in (DOMAIN d) \ {k} |-> d[x]]

\* config_manager.load_apps(): the configured applications in their order
AppList == listed

FreeSlots == {t \in TaskIds : tasks[t].kind = "idle"}
FreeSlot == CHOOSE t \in FreeSlots : \A u \in FreeSlots : t <= u

\* datetime.now().isoformat()
Now == clock

\* state = self.app_states.get(app.id); if not state: state = self.init_state(app)
EnsureState(states, a) == IF a \in DOMAIN states THEN states ELSE Put(states, a, init_state(a))

SetState(states, a, status, message) ==
    [states EXCEPT ![a] = [status |-> status, message |-> message, last_check |-> Now]]

\* state.status = ...; state.message = ... (last_check is left as it is)
SetStatus(states, a, status, message) ==
    [states EXCEPT ![a].status = status, ![a].message = message]

StatusOf(states, a) == IF a \in DOMAIN states THEN states[a].status ELSE "absent"

has_http_checks(a) == Len(cfg[a].health) > 0
has_port_checks(a) == Len(cfg[a].ports) > 0

\* max_timeout that takes the timeout of the first probe
max_timeout_first(a) == IF Len(cfg[a].health) > 0 THEN cfg[a].health[1] ELSE DefaultTimeout

\* max((h.timeout_sec for h in app.health), default=120)
max_timeout(a) == Max(Range(cfg[a].health), DefaultTimeout)

\* p.poll() is None
Alive(osv, pid) == osv[pid].alive

\* the pids of a handle's process tree that are alive
TreeAlive(osv, pid) ==
    (IF osv[pid].alive THEN {<<pid, "root">>} ELSE {}) \cup
    (IF osv[pid].kid THEN {<<pid, "kid">>} ELSE {})

(* ---------------------------- check_health ----------------------------- *)
ProbeError == -1
StatusCodes == {200, 499, 500, ProbeError}

RECURSIVE http_loop_any_response(_, _)
\* http_loop without the `response.status < 500` test: any response sets http_ok
http_loop_any_response(statuses, i) ==
    IF i > Len(statuses) THEN FALSE
    ELSE IF statuses[i] # ProbeError THEN TRUE
    ELSE http_loop_any_response(statuses, i + 1)

RECURSIVE http_loop(_, _)
\* for health in app.health: a response with status < 500 sets http_ok and breaks;
\* an exception continues with the next probe
http_loop(statuses, i) ==
    IF i > Len(statuses) THEN FALSE
    ELSE IF statuses[i] # ProbeError /\ statuses[i] < ServerErrorFloor THEN TRUE
    ELSE http_loop(statuses, i + 1)

\* return await try_host("127.0.0.1") or await try_host("::1")
port_reachable(v4, v6) == v4 \/ v6

RECURSIVE ports_loop(_, _, _)
\* for port in app.ports: if not await port_reachable(port): ports_ok = False; break
ports_loop(v4, v6, i) ==
    IF i > Len(v4) THEN TRUE
    ELSE IF ~port_reachable(v4[i], v6[i]) THEN FALSE
    ELSE ports_loop(v4, v6, i + 1)

\* any_alive with all(...) for any(...)
all_alive(alive) == Len(alive) > 0 /\ \A i \in 1..Len(alive) : alive[i]

\* any(p.poll() is None for p in procs)
any_alive(alive) == \E i \in 1..Len(alive) : alive[i]

\* check_health for a definition with Len(statuses) probes and Len(v4) ports; alive is
\* p.poll() is None for each handle of self.processes.get(app.id, [])
check_health(statuses, v4, v6, alive) ==
    LET has_http == Len(statuses) > 0
        has_port == Len(v4) > 0
    IN  IF ~has_http /\ ~has_port THEN any_alive(alive)
        ELSE LET http_ok == http_loop(statuses, 1)
                 ports_ok == IF has_port THEN ports_loop(v4, v6, 1) ELSE TRUE
             IN  IF has_http /\ has_port THEN http_ok /\ ports_ok
                 ELSE IF has_http THEN http_ok
                 ELSE ports_ok

\* self.processes.get(app.id, []) with p.poll() is None for each handle
Liveness(a) ==
    IF a \in DOMAIN processes
    THEN [i \in 1..Len(processes[a]) |-> Alive(os, processes[a][i])]
    ELSE <<>>

(* -------------------------- resolve_open_urls -------------------------- *)
\* the names _windows_listener_process may report; "" when nothing listens, the host
\* is not Windows or the listener cannot be determined
ListenerNames == {"wslhost.exe", "WslRelay.exe", "System", "node.exe"}
Listeners == {""} \cup ListenerNames

\* str.lower() of the host names and process names of this model
lower(s) ==
    CASE s = "WslRelay.exe" -> "wslrelay.exe"
      [] s = "System" -> "system"
      [] s = "LocalHost" -> "localhost"
      [] OTHER -> s

\* n.startswith('wsl') for a lower-case process name
startswith_wsl(n) == n \in {"wslhost.exe", "wsl.exe", "wslservice.exe", "wslrelay.exe"}

\* _is_probably_wsl_proxy without the `or n.startswith('wsl')`
_is_probably_wsl_proxy_exact(name) ==
    /\ name # ""
    /\ lower(name) \in {"wslhost.exe", "wsl.exe", "wslservice.exe", "vmmem", "system"}

\* _is_probably_wsl_proxy
_is_probably_wsl_proxy(name) ==
    /\ name # ""
    /\ \/ lower(name) \in {"wslhost.exe", "wsl.exe", "wslservice.exe", "vmmem", "system"}
       \/ startswith_wsl(lower(name))

\* _get_wsl_ip: q is what `wsl.exe -d <distro> hostname -I` answers now ("" when it
\* fails, times out or prints nothing); queried: the command was run
_get_wsl_ip(cache, distro, now, q) ==
    IF distro \in DOMAIN cache /\ (now - cache[distro].ts) < CacheTtl
    THEN [ip |-> cache[distro].ip, cache |-> cache, queried |-> FALSE]
    ELSE [ip |-> q, queried |-> TRUE,
          cache |-> IF q # "" THEN Put(cache, distro, [ip |-> q, ts |-> now]) ELSE cache]

\* hostname.lower() in ("127.0.0.1", "localhost") and port
is_loopback(u) == lower(u.host) \in {"127.0.0.1", "localhost"} /\ u.port # 0

\* urlunparse(parsed._replace(netloc=netloc)): netloc is "ip:port", with
\* "username[:password]@" in front when the URL has a user name or a password
rewrite_netloc(u, ip) ==
    LET has_userinfo == u.username # "" \/ u.password # ""
        username == IF has_userinfo THEN u.username ELSE ""
        password == IF has_userinfo /\ u.password # "" THEN u.password ELSE ""
    IN  [scheme |-> u.scheme, username |-> username, password |-> password, host |-> ip,
         port |-> u.port, rest |-> u.rest]

\* resolve_one without the loopback test: every http(s) URL with a port is resolved
resolve_one_any_host(u, ip, reach, listener) ==
    IF u.scheme \notin {"http", "https"} THEN <<u>>
    ELSE IF u.port = BadPort THEN <<u>>
    ELSE IF u.port # 0
    THEN IF reach THEN <<rewrite_netloc(u, ip)>>
         ELSE IF listener # "" /\ ~_is_probably_wsl_proxy(listener) THEN <<>>
         ELSE <<u>>
    ELSE <<u>>

\* resolve_one whose except clause appends nothing: a URL that does not parse is lost
resolve_one_drop_unparsable(u, ip, reach, listener) ==
    IF u.scheme \notin {"http", "https"} THEN <<u>>
    ELSE IF u.port = BadPort THEN <<>>
    ELSE IF is_loopback(u)
    THEN IF reach THEN <<rewrite_netloc(u, ip)>>
         ELSE IF listener # "" /\ ~_is_probably_wsl_proxy(listener) THEN <<>>
         ELSE <<u>>
    ELSE <<u>>

\* resolve_one that takes the IP for reachable without the probe of line 165
resolve_one_unprobed(u, ip, reach, listener) ==
    IF u.scheme \notin {"http", "https"} THEN <<u>>
    ELSE IF u.port = BadPort THEN <<u>>
    ELSE IF is_loopback(u) THEN <<rewrite_netloc(u, ip)>>
    ELSE <<u>>

\* the body of `for url in urls`: what one URL adds to the result. reach is the answer
\* of _tcp_reachable(ip, port) and listener that of _windows_listener_process(port),
\* were they asked for this URL
resolve_one(u, ip, reach, listener) ==
    IF u.scheme \notin {"http", "https"} THEN <<u>>
    ELSE IF u.port = BadPort
    THEN \* parsed.port raises ValueError: except Exception: resolved.append(url)
         <<u>>
    ELSE IF is_loopback(u)
    THEN IF reach THEN <<rewrite_netloc(u, ip)>>
         ELSE IF listener # "" /\ ~_is_probably_wsl_proxy(listener) THEN <<>>
         ELSE <<u>>
    ELSE <<u>>

RECURSIVE resolve_loop(_, _, _, _, _)
\* the for loop of resolve_open_urls; reach[i] and listener[i] are the answers for the
\* i-th URL
resolve_loop(urls, i, ip, reach, listener) ==
    IF i > Len(urls) THEN <<>>
    ELSE resolve_one(urls[i], ip, reach[i], listener[i])
         \o resolve_loop(urls, i + 1, ip, reach, listener)

\* resolve_open_urls(app), given the _get_wsl_ip result
resolve_open_urls(app, ip, reach, listener) ==
    IF app.workspace.distro = "" THEN app.open
    ELSE IF ip = "" THEN app.open
    ELSE resolve_loop(app.open, 1, ip, reach, listener)

\* the URLs of a list for which the probe and the listener table are consulted
Probed(urls) ==
    {i \in 1..Len(urls) : urls[i].scheme \in {"http", "https"} /\ urls[i].port # BadPort
                          /\ is_loopback(urls[i])}

\* what the environment may answer to the resolver of this application
QueryAnswers(a) == IF cfg[a].workspace.distro = "" THEN {""} ELSE {"", WslIp}
ReachAnswers(a) ==
    {f \in [1..Len(cfg[a].open) -> BOOLEAN] :
        \A i \in 1..Len(cfg[a].open) :
            f[i] => cfg[a].workspace.distro # "" /\ i \in Probed(cfg[a].open)}
ListenerAnswers(a) ==
    {f \in [1..Len(cfg[a].open) -> Listeners] :
        \A i \in 1..Len(cfg[a].open) :
            f[i] # "" => cfg[a].workspace.distro # "" /\ i \in Probed(cfg[a].open)}

\* the cache after resolve_open_urls(app): _get_wsl_ip is called only for a WSL workspace
CacheAfter(a, q) ==
    IF cfg[a].workspace.distro = "" THEN wsl_ip_cache
    ELSE _get_wsl_ip(wsl_ip_cache, cfg[a].workspace.distro, clock, q).cache

IpFor(a, q) ==
    IF cfg[a].workspace.distro = "" THEN ""
    ELSE _get_wsl_ip(wsl_ip_cache, cfg[a].workspace.distro, clock, q).ip

(* ------------------------------ stop_app ------------------------------- *)
Faults == {"none", "terminate_child", "terminate_parent", "kill"}

\* the fault is one the code can meet for this handle: terminate() of a child or of the
\* parent raises, or kill() of a survivor of wait_procs raises
Faulted(osv, pid, fault) ==
    /\ osv[pid].alive
    /\ \/ fault \in {"terminate_parent", "kill"}
       \/ fault = "terminate_child" /\ osv[pid].kid

\* the body of `for proc in processes` for one handle
stop_one(osv, pid, fault) ==
    IF ~osv[pid].alive
    THEN \* psutil.Process(pid) raises NoSuchProcess, or the exited root has no children
         \* left to enumerate: nothing is signalled
         osv
    ELSE IF fault = "terminate_child" /\ osv[pid].kid
    THEN \* child.terminate() raises: parent.terminate() and the kill are skipped
         osv
    ELSE IF fault = "terminate_parent"
    THEN \* the children were signalled, parent.terminate() raises
         [osv EXCEPT ![pid].kid = FALSE]
    ELSE IF fault = "kill"
    THEN \* the tree ignores the signal and the first kill() raises
         osv
    ELSE [osv EXCEPT ![pid].alive = FALSE, ![pid].kid = FALSE]

RECURSIVE stop_loop_abort(_, _, _, _)
\* stop_loop with the try around the whole loop: the first fault ends the loop
stop_loop_abort(osv, procs, fs, i) ==
    IF i > Len(procs) THEN [os |-> osv, visited |-> 0, faults |-> 0]
    ELSE IF Faulted(osv, procs[i], fs[i])
    THEN [os |-> stop_one(osv, procs[i], fs[i]), visited |-> 1, faults |-> 1]
    ELSE LET r == stop_loop_abort(stop_one(osv, procs[i], fs[i]), procs, fs, i + 1)
         IN  [os |-> r.os, visited |-> r.visited + 1, faults |-> r.faults]

RECURSIVE stop_loop(_, _, _, _)
\* for proc in processes: try ... except Exception: print(...)
stop_loop(osv, procs, fs, i) ==
    IF i > Len(procs) THEN [os |-> osv, visited |-> 0, faults |-> 0]
    ELSE LET r == stop_loop(stop_one(osv, procs[i], fs[i]), procs, fs, i + 1)
         IN  [os |-> r.os, visited |-> r.visited + 1,
              faults |-> r.faults + (IF Faulted(osv, procs[i], fs[i]) THEN 1 ELSE 0)]

\* the coroutines of application a in flight (a refresh walks over every application)
InFlight(a) == {t \in TaskIds : tasks[t].kind = "refresh" \/ (tasks[t].kind # "idle" /\ tasks[t].app = a)}

\* every coroutine of a in flight is suspended inside a health poll of a
MidPoll(a) ==
    /\ InFlight(a) # {}
    /\ \A t \in InFlight(a) :
          /\ tasks[t].app = a
          /\ tasks[t].pc \in {"probing", "sleep"}
          /\ tasks[t].ctx \in {"wait", "refresh"}

StopApp(a) ==
    /\ running = 0
    /\ calls < MaxCalls /\ calls' = calls + 1
    /\ stop_mid' = [stop_mid EXCEPT ![a] = MidPoll(a) /\ a \in DOMAIN processes]
    /\ IF a \notin DOMAIN processes
       THEN /\ ret' = [NoRet EXCEPT !.op = "stop", !.app = a, !.ok = TRUE, !.path = "untracked",
                                    !.status = StatusOf(app_states, a)]
            /\ UNCHANGED <<cfg, listed, logs, app_states, processes, wsl_ip_cache, os, clock, tasks, running>>
       ELSE \E fs \in [1..Len(processes[a]) -> Faults] :
            LET procs == processes[a]
                r == stop_loop(os, procs, fs, 1)
                states == IF a \in DOMAIN app_states
                          THEN SetState(app_states, a, Stopped, Msg("Application stopped", ""))
                          ELSE app_states
            IN  /\ os' = r.os
                /\ processes' = Del(processes, a)
                /\ app_states' = states
                /\ ret' = [NoRet EXCEPT !.op = "stop", !.app = a, !.ok = TRUE, !.path = "tracked",
                                        !.status = StatusOf(states, a),
                                        !.tracked = (a \in DOMAIN processes'),
                                        !.had = Len(procs), !.visited = r.visited,
                                        !.faults = r.faults,
                                        !.survivors = UNION {TreeAlive(r.os, procs[i]) : i \in 1..Len(procs)}]
                /\ UNCHANGED <<cfg, listed, logs, wsl_ip_cache, clock, tasks, running>>

(* --------------------------- the environment --------------------------- *)
\* a spawned process exits by itself
ProcExit(p) ==
    /\ running = 0
    /\ p \in 1..Len(os) /\ os[p].alive
    /\ os' = [os EXCEPT ![p].alive = FALSE]
    /\ UNCHANGED <<cfg, listed, logs, calls, app_states, processes, wsl_ip_cache, clock, tasks, running, stop_mid>> /\ ret' = NoRet

\* a spawned shell starts a child process
ProcFork(p) ==
    /\ running = 0
    /\ p \in 1..Len(os) /\ os[p].alive /\ ~os[p].kid
    /\ os' = [os EXCEPT ![p].kid = TRUE]
    /\ UNCHANGED <<cfg, listed, logs, calls, app_states, processes, wsl_ip_cache, clock, tasks, running, stop_mid>> /\ ret' = NoRet

\* the child exits by itself
KidExit(p) ==
    /\ running = 0
    /\ p \in 1..Len(os) /\ os[p].kid
    /\ os' = [os EXCEPT ![p].kid = FALSE]
    /\ UNCHANGED <<cfg, listed, logs, calls, app_states, processes, wsl_ip_cache, clock, tasks, running, stop_mid>> /\ ret' = NoRet

\* time passes; the clock is read only against the timestamps of the cache
Tick ==
    /\ running = 0
    /\ clock < MaxClock
    /\ DOMAIN wsl_ip_cache # {}
    /\ clock' = clock + CacheTtl
    /\ UNCHANGED <<cfg, listed, logs, calls, app_states, processes, wsl_ip_cache, os, tasks, running, stop_mid>> /\ ret' = NoRet

(* ------------------------------ coroutines ----------------------------- *)
At(t, pc) == tasks[t].kind # "idle" /\ tasks[t].pc = pc

\* one more request is made
Request == calls < MaxCalls /\ calls' = calls + 1

\* the handler called for a request starts to run: the loop is idle and a slot is free
NewTask(kind, a, pc, ctx) ==
    [IdleTask EXCEPT !.kind = kind, !.app = a, !.pc = pc, !.ctx = ctx]

\* launch_app, up to its quick check_health(app, timeout=3)
LaunchCall(a) ==
    /\ a \in Range(AppList) /\ Request
    /\ running = 0 /\ FreeSlots # {}
    /\ app_states' = EnsureState(app_states, a)
    /\ tasks' = [tasks EXCEPT ![FreeSlot] = NewTask("launch", a, "check", "quick")]
    /\ running' = FreeSlot
    /\ stop_mid' = [stop_mid EXCEPT ![a] = FALSE]
    /\ UNCHANGED <<cfg, listed, logs, processes, wsl_ip_cache, os, clock>> /\ ret' = NoRet

\* start_app called on its own
StartCall(a) ==
    /\ a \in Range(AppList) /\ Request
    /\ running = 0 /\ FreeSlots # {}
    /\ tasks' = [tasks EXCEPT ![FreeSlot] = NewTask("start", a, "start", "")]
    /\ running' = FreeSlot
    /\ stop_mid' = [stop_mid EXCEPT ![a] = FALSE]
    /\ UNCHANGED <<cfg, listed, logs, app_states, processes, wsl_ip_cache, os, clock>> /\ ret' = NoRet

\* check_health begins: without probes and ports it answers from process liveness
\* at once; with them the first probe suspends the coroutine
CheckHealthBegin(t) ==
    /\ running = t /\ At(t, "check")
    /\ LET a == tasks[t].app
       IN  IF ~has_http_checks(a) /\ ~has_port_checks(a)
           THEN /\ tasks' = [tasks EXCEPT ![t].pc = "checked",
                                          ![t].healthy = check_health(<<>>, <<>>, <<>>, Liveness(a))]
                /\ running' = t
           ELSE /\ tasks' = [tasks EXCEPT ![t].pc = "probing"]
                /\ running' = 0
    /\ UNCHANGED <<cfg, listed, logs, calls, app_states, processes, wsl_ip_cache, os, clock, stop_mid>> /\ ret' = NoRet

\* the probes of check_health have answered
CheckHealthEnd(t) ==
    /\ running = 0 /\ At(t, "probing")
    /\ LET a == tasks[t].app
       IN  \E statuses \in [1..Len(cfg[a].health) -> StatusCodes],
              v4 \in [1..Len(cfg[a].ports) -> BOOLEAN],
              v6 \in [1..Len(cfg[a].ports) -> BOOLEAN] :
              tasks' = [tasks EXCEPT ![t].pc = "checked",
                                     ![t].healthy = check_health(statuses, v4, v6, Liveness(a))]
    /\ running' = t
    /\ UNCHANGED <<cfg, listed, logs, calls, app_states, processes, wsl_ip_cache, os, clock, stop_mid>> /\ ret' = NoRet

\* the coroutines in flight, in their order, fill the first slots
Compact(ts) ==
    LET live == SelectSeq([i \in TaskIds |-> ts[i]], LAMBDA x : x.kind # "idle")
    IN  [i \in TaskIds |-> IF i <= Len(live) THEN live[i] ELSE IdleTask]

\* the coroutine returns: its slot and the event loop are free again
Finish(t) ==
    /\ tasks' = Compact([tasks EXCEPT ![t] = IdleTask])
    /\ running' = 0

\* the dictionary launch_app returns
LaunchResult(t, states, status, path, message, urls) ==
    [NoRet EXCEPT !.op = "launch", !.app = tasks[t].app, !.ok = (status = "success"),
                  !.path = path, !.msg = message, !.open_urls = urls,
                  !.status = StatusOf(states, tasks[t].app),
                  !.spawned = tasks[t].spawned, !.survived = tasks[t].survived,
                  !.sched = tasks[t].sched,
                  !.same = ~tasks[t].touched, !.quick = tasks[t].quick]

\* quick_path without the short cut: start_app is called whatever the quick check says
quick_path_start(healthy) == "start"

\* "already running" when the quick check passed, start_app otherwise
quick_path(healthy) == IF healthy THEN "short" ELSE "start"

\* launch_app after the quick check: "already running", or go on to start_app
LaunchQuickDone(t) ==
    /\ running = t /\ At(t, "checked") /\ tasks[t].ctx = "quick"
    /\ LET a == tasks[t].app
       IN  IF quick_path(tasks[t].healthy) = "short"
           THEN \E q \in QueryAnswers(a), reach \in ReachAnswers(a), listener \in ListenerAnswers(a) :
                LET states == SetState(app_states, a, Running, Msg("Application is already running", ""))
                IN  /\ app_states' = states
                    /\ wsl_ip_cache' = CacheAfter(a, q)
                    /\ ret' = [LaunchResult(t, states, "success", "short",
                                            Msg("Application is already running", ""),
                                            resolve_open_urls(cfg[a], IpFor(a, q), reach, listener))
                                 EXCEPT !.quick = tasks[t].healthy]
                    /\ Finish(t)
           ELSE /\ tasks' = [tasks EXCEPT ![t].pc = "start", ![t].ctx = "",
                                          ![t].quick = tasks[t].healthy]
                /\ UNCHANGED <<app_states, wsl_ip_cache, running>> /\ ret' = NoRet
    /\ UNCHANGED <<cfg, listed, logs, calls, processes, os, clock, stop_mid>>

\* state.message or "Failed to start application"
MessageOr(states, a) ==
    IF states[a].message = NoMsg THEN Msg("Failed to start application", "") ELSE states[a].message

\* start_app returned False: start_app's caller gets False, launch_app an error result
StartFailed(t, states, path, touched, spawned, rc) ==
    /\ ret' = IF tasks[t].kind = "launch"
              THEN [LaunchResult(t, states, "error", path, MessageOr(states, tasks[t].app), <<>>)
                      EXCEPT !.same = ~touched, !.spawned = spawned, !.rc = rc]
              ELSE [NoRet EXCEPT !.op = "start", !.app = tasks[t].app, !.ok = FALSE, !.path = path,
                                 !.msg = states[tasks[t].app].message,
                                 !.status = StatusOf(states, tasks[t].app),
                                 !.spawned = spawned, !.survived = tasks[t].survived,
                                 !.sched = tasks[t].sched,
                                 !.same = ~touched, !.rc = rc]
    /\ Finish(t)

\* start_prologue with `self.processes[app.id] = []` ahead of the workspace check
start_prologue_early(states, procs, a) ==
    LET starting == SetState(EnsureState(states, a), a, Starting, Msg("Starting application...", ""))
    IN  IF ~cfg[a].workspace.exists
        THEN [found |-> FALSE, procs |-> Put(procs, a, <<>>), assigned |-> TRUE,
              states |-> SetStatus(starting, a, Error, Msg("Workspace not found", ""))]
        ELSE [found |-> TRUE, procs |-> Put(procs, a, <<>>), assigned |-> TRUE,
              states |-> starting]

\* start_app down to `self.processes[app.id] = []`: the state goes to Starting, a
\* missing workspace ends the call with Error before the handle list is touched
start_prologue(states, procs, a) ==
    LET starting == SetState(EnsureState(states, a), a, Starting, Msg("Starting application...", ""))
    IN  IF ~cfg[a].workspace.exists
        THEN [found |-> FALSE, procs |-> procs, assigned |-> FALSE,
              states |-> SetStatus(starting, a, Error, Msg("Workspace not found", ""))]
        ELSE [found |-> TRUE, procs |-> Put(procs, a, <<>>), assigned |-> TRUE,
              states |-> starting]

\* start_app from its beginning to the start of the loop over the start commands
StartBegin(t) ==
    /\ running = t /\ At(t, "start")
    /\ LET a == tasks[t].app
           r == start_prologue(app_states, processes, a)
       IN  /\ app_states' = r.states
           /\ processes' = r.procs
           /\ IF ~r.found
              THEN StartFailed(t, r.states, "workspace", r.assigned, tasks[t].spawned, None)
              ELSE /\ tasks' = [tasks EXCEPT ![t].pc = "spawn", ![t].step = 1,
                                             ![t].touched = r.assigned]
                   /\ UNCHANGED <<running>> /\ ret' = NoRet
    /\ UNCHANGED <<cfg, listed, logs, calls, wsl_ip_cache, os, clock, stop_mid>>

\* what Popen(...) of a start command can do
SpawnOutcomes == {"spawned", "raises"}

\* the process a start step spawns
NewProcess(a) == [app |-> a, alive |-> TRUE, kid |-> FALSE]

\* start_app, one turn of `for cmd in app.start` down to `await asyncio.sleep(0.2)`;
\* after the last command the background poll is scheduled and start_app returns True
StartSpawn(t) ==
    /\ running = t /\ At(t, "spawn")
    /\ LET a == tasks[t].app
           me == tasks[t]
       IN  IF me.step > cfg[a].start
           THEN /\ FreeSlots # {}
                /\ IF me.kind = "launch"
                   THEN /\ tasks' = [tasks EXCEPT ![FreeSlot] = NewTask("poll", a, "poll_begin", ""),
                                                  ![t] = [me EXCEPT !.pc = "wait_test", !.sched = TRUE,
                                                                    !.step = 0, !.pid = 0, !.elapsed = 0,
                                                                    !.max_timeout = max_timeout(a)]]
                        /\ UNCHANGED <<running>> /\ ret' = NoRet
                   ELSE /\ tasks' = Compact([tasks EXCEPT ![FreeSlot] = NewTask("poll", a, "poll_begin", ""),
                                                          ![t] = IdleTask])
                        /\ running' = 0
                        /\ ret' = [NoRet EXCEPT !.op = "start", !.app = a, !.ok = TRUE, !.path = "started",
                                                !.msg = app_states[a].message,
                                                !.status = StatusOf(app_states, a),
                                                !.spawned = me.spawned, !.survived = me.survived,
                                                !.sched = TRUE, !.same = ~me.touched]
                /\ UNCHANGED <<app_states, processes, os>>
           ELSE \E outcome \in SpawnOutcomes :
                IF outcome = "raises"
                THEN \* except Exception as e: "Failed to start command: {e}"
                     LET states == SetStatus(app_states, a, Error, Msg("Failed to start command", ""))
                     IN  /\ app_states' = states
                         /\ StartFailed(t, states, "raised", me.touched, me.spawned, None)
                         /\ UNCHANGED <<processes, os>>
                ELSE /\ Len(os) < MaxProcs
                     /\ os' = Append(os, NewProcess(a))
                     /\ IF a \in DOMAIN processes
                        THEN /\ processes' = [processes EXCEPT ![a] = Append(@, Len(os) + 1)]
                             /\ tasks' = [tasks EXCEPT ![t].pc = "grace", ![t].pid = Len(os) + 1,
                                                       ![t].spawned = Append(@, me.step),
                                                       ![t].touched = TRUE]
                             /\ running' = 0
                             /\ UNCHANGED <<app_states>> /\ ret' = NoRet
                        ELSE \* self.processes[app.id] raises KeyError: the entry was deleted
                             \* while an earlier step of this call slept
                             LET states == SetStatus(app_states, a, Error, Msg("Failed to start command", ""))
                             IN  /\ app_states' = states
                                 /\ StartFailed(t, states, "raised", me.touched,
                                                Append(me.spawned, me.step), None)
                                 /\ UNCHANGED processes
    /\ UNCHANGED <<cfg, listed, logs, calls, wsl_ip_cache, clock, stop_mid>>

\* the codes process.poll() can report for a process that has exited (by itself, or
\* terminated by a signal); None is the answer for a process that is alive
ExitCodes == {"0", "1", "-15"}
PollAnswers(alive) == IF alive THEN {None} ELSE ExitCodes

\* grace_check with `if rc:` for `if rc is not None:`: exit code 0 goes unnoticed
grace_check_nonzero(rc) == IF rc # None /\ rc # "0" THEN "exited" ELSE "next"

\* grace_check without the test: the loop goes on whatever poll() reports
grace_check_skip(rc) == "next"

\* rc = process.poll(); if rc is not None: fail (ret keeps the rc the check has read)
grace_check(rc) == IF rc # None THEN "exited" ELSE "next"

\* start_app after `await asyncio.sleep(0.2)`
StartGraceEnd(t) ==
    /\ running = 0 /\ At(t, "grace")
    /\ LET a == tasks[t].app
           me == tasks[t]
           alive == Alive(os, me.pid)
       IN  \E rc \in PollAnswers(alive) :
           IF grace_check(rc) = "exited"
           THEN LET states == SetStatus(app_states, a, Error,
                                        Msg("Process exited immediately with code", rc))
                IN  /\ app_states' = states
                    /\ StartFailed(t, states, "exited", me.touched, me.spawned, rc)
           ELSE /\ tasks' = [tasks EXCEPT ![t].pc = "spawn", ![t].step = me.step + 1, ![t].pid = 0,
                                          ![t].survived = me.survived + (IF alive THEN 1 ELSE 0)]
                /\ running' = t
                /\ UNCHANGED <<app_states>>
                /\ ret' = [NoRet EXCEPT !.op = "grace", !.app = a, !.rc = rc]
    /\ UNCHANGED <<cfg, listed, logs, calls, processes, wsl_ip_cache, os, clock, stop_mid>>

\* _poll_health starts to run: state = self.app_states[app.id], then wait_for_health
PollBegin(t) ==
    /\ running = 0 /\ At(t, "poll_begin")
    /\ tasks[t].app \in DOMAIN app_states
    /\ tasks' = [tasks EXCEPT ![t].pc = "wait_test", ![t].elapsed = 0,
                              ![t].max_timeout = max_timeout(tasks[t].app)]
    /\ running' = t
    /\ UNCHANGED <<cfg, listed, logs, calls, app_states, processes, wsl_ip_cache, os, clock, stop_mid>> /\ ret' = NoRet

\* while time.time() - start_time < max_timeout
wait_continue(elapsed, timeout) == elapsed < timeout

\* "Health check timeout after {max_timeout}s"
TimeoutMsg(timeout) == Msg("Health check timeout after", ToString(timeout))

\* launch_epilogue that resolves the URLs on both branches
launch_epilogue_keep_urls(healthy, timeout, urls) ==
    IF healthy
    THEN [result |-> "success", status |-> Running, path |-> "healthy",
          message |-> Msg("Application started successfully", ""), open_urls |-> urls]
    ELSE [result |-> "error", status |-> Error, path |-> "timeout",
          message |-> TimeoutMsg(timeout), open_urls |-> urls]

\* launch_app after wait_for_health returned
launch_epilogue(healthy, timeout, urls) ==
    IF healthy
    THEN [result |-> "success", status |-> Running, path |-> "healthy",
          message |-> Msg("Application started successfully", ""), open_urls |-> urls]
    ELSE [result |-> "error", status |-> Error, path |-> "timeout",
          message |-> TimeoutMsg(timeout), open_urls |-> <<>>]

\* poll_epilogue that writes nothing when the wait timed out
poll_epilogue_keep_starting(healthy, timeout) ==
    IF healthy
    THEN [status |-> Running, message |-> Msg("Application is running", "")]
    ELSE [status |-> Starting, message |-> Msg("Starting application...", "")]

\* _poll_health after wait_for_health returned
poll_epilogue(healthy, timeout) ==
    IF healthy
    THEN [status |-> Running, message |-> Msg("Application is running", "")]
    ELSE [status |-> Error, message |-> TimeoutMsg(timeout)]

\* handles_after_timeout that gives the application up: its entry is removed
handles_after_timeout_drop(procs, a) == IF a \in DOMAIN procs THEN Del(procs, a) ELSE procs

\* self.processes once a health-wait has timed out: the else branches of launch_app and
\* of _poll_health write to the state record only
handles_after_timeout(procs, a) == procs

\* wait_for_health returned `healthy` to launch_app or to _poll_health
WaitReturns(t, healthy) ==
    LET a == tasks[t].app
        me == tasks[t]
    IN  /\ processes' = IF healthy THEN processes ELSE handles_after_timeout(processes, a)
        /\ IF me.kind = "launch"
           THEN \E q \in IF healthy THEN QueryAnswers(a) ELSE {""},
                   reach \in IF healthy THEN ReachAnswers(a) ELSE {<<>>},
                   listener \in IF healthy THEN ListenerAnswers(a) ELSE {<<>>} :
                LET e == launch_epilogue(healthy, me.max_timeout,
                                         resolve_open_urls(cfg[a], IpFor(a, q), reach, listener))
                    states == SetState(app_states, a, e.status, e.message)
                IN  /\ app_states' = states
                    /\ wsl_ip_cache' = IF healthy THEN CacheAfter(a, q) ELSE wsl_ip_cache
                    /\ ret' = [LaunchResult(t, states, e.result, e.path, e.message, e.open_urls)
                                 EXCEPT !.observed = (me.ctx = "wait" /\ me.healthy),
                                        !.checked = (me.ctx = "wait")]
                    /\ Finish(t)
           ELSE LET e == poll_epilogue(healthy, me.max_timeout)
                IN  /\ app_states' = SetState(app_states, a, e.status, e.message)
                    /\ Finish(t)
                    /\ ret' = [NoRet EXCEPT !.op = "poll", !.app = a, !.ok = healthy,
                                            !.path = IF healthy THEN "healthy" ELSE "timeout",
                                            !.elapsed = me.elapsed,
                                            !.observed = (me.ctx = "wait" /\ me.healthy),
                                            !.checked = (me.ctx = "wait")]
                    /\ UNCHANGED wsl_ip_cache

\* the loop test of wait_for_health
WaitTest(t) ==
    /\ running = t /\ At(t, "wait_test")
    /\ IF wait_continue(tasks[t].elapsed, tasks[t].max_timeout)
       THEN /\ tasks' = [tasks EXCEPT ![t].pc = "check", ![t].ctx = "wait"]
            /\ UNCHANGED <<app_states, processes, wsl_ip_cache, running>> /\ ret' = NoRet
       ELSE WaitReturns(t, FALSE)
    /\ UNCHANGED <<cfg, listed, logs, calls, os, clock, stop_mid>>

\* wait_for_health after check_health: return True, or await asyncio.sleep(retry_interval)
WaitChecked(t) ==
    /\ running = t /\ At(t, "checked") /\ tasks[t].ctx = "wait"
    /\ IF tasks[t].healthy
       THEN WaitReturns(t, TRUE)
       ELSE /\ tasks' = [tasks EXCEPT ![t].pc = "sleep"]
            /\ running' = 0
            /\ UNCHANGED <<app_states, processes, wsl_ip_cache>> /\ ret' = NoRet
    /\ UNCHANGED <<cfg, listed, logs, calls, os, clock, stop_mid>>

\* time.time() - start_time once asyncio.sleep(2) is over: the sleep lasts 2 s, or the
\* loop is kept busy until the timeout has passed
Slept(elapsed, timeout) ==
    LET late == Max({elapsed + RetryInterval, timeout}, 0)
    IN  IF elapsed < MaxElapsed THEN {elapsed + RetryInterval, late} ELSE {late}

SleepEnd(t) ==
    /\ running = 0 /\ At(t, "sleep")
    /\ \E e \in Slept(tasks[t].elapsed, tasks[t].max_timeout) :
          tasks' = [tasks EXCEPT ![t].pc = "wait_test", ![t].elapsed = e]
    /\ running' = t
    /\ UNCHANGED <<cfg, listed, logs, calls, app_states, processes, wsl_ip_cache, os, clock, stop_mid>> /\ ret' = NoRet

(* ---------------------------- refresh_states --------------------------- *)
\* reap that goes through the entries of every application, whichever turn it is
reap_every(procs, osv, a) ==
    LET one(ps, b) == IF b \in DOMAIN ps /\ Len(ps[b]) > 0
                      THEN LET alive == SelectSeq(ps[b], LAMBDA p : Alive(osv, p))
                           IN  IF Len(alive) > 0 THEN [ps EXCEPT ![b] = alive] ELSE Del(ps, b)
                      ELSE ps
    IN  one(one(procs, AppSeq[1]), AppSeq[2])

\* reap exited processes: keep the handles that are alive, drop the entry when none is
reap(procs, osv, a) ==
    IF a \in DOMAIN procs /\ Len(procs[a]) > 0
    THEN LET alive == SelectSeq(procs[a], LAMBDA p : Alive(osv, p))
         IN  IF Len(alive) > 0 THEN [procs EXCEPT ![a] = alive] ELSE Del(procs, a)
    ELSE procs

\* refresh_verdict that leaves an Error alone when the check fails
refresh_verdict_keep_error(healthy, procs, a) ==
    IF healthy THEN [status |-> Running, message |-> Msg("Application is running", "")]
    ELSE IF app_states[a].status = Error THEN [status |-> Error, message |-> app_states[a].message]
    ELSE IF a \in DOMAIN procs /\ Len(procs[a]) > 0
    THEN [status |-> Starting, message |-> Msg("Starting...", "")]
    ELSE [status |-> Stopped, message |-> Msg("Application is stopped", "")]

\* refresh_verdict that takes a tracked handle for a running application
refresh_verdict_tracked_running(healthy, procs, a) ==
    IF healthy \/ (a \in DOMAIN procs /\ Len(procs[a]) > 0)
    THEN [status |-> Running, message |-> Msg("Application is running", "")]
    ELSE [status |-> Stopped, message |-> Msg("Application is stopped", "")]

\* the status refresh_states settles on after check_health
refresh_verdict(healthy, procs, a) ==
    IF healthy THEN [status |-> Running, message |-> Msg("Application is running", "")]
    ELSE IF a \in DOMAIN procs /\ Len(procs[a]) > 0
    THEN [status |-> Starting, message |-> Msg("Starting...", "")]
    ELSE [status |-> Stopped, message |-> Msg("Application is stopped", "")]

\* refresh_skips without the test: every application is re-evaluated
refresh_skips_never(status, a) == FALSE

\* if state.status == AppStatus.STARTING and (has_http_checks or has_port_checks): continue
refresh_skips(status, a) == status = Starting /\ (has_http_checks(a) \/ has_port_checks(a))

RECURSIVE respond_cache(_, _, _, _)
\* the cache after resolve_open_urls(app) for the applications apps[i..] of the
\* response of get_apps; q[i] is what the bridge query answers for apps[i] if it is run
respond_cache(cache, apps, i, q) ==
    IF i > Len(apps) THEN cache
    ELSE LET distro == cfg[apps[i]].workspace.distro
         IN  respond_cache(IF distro = "" THEN cache
                           ELSE _get_wsl_ip(cache, distro, clock, q[i]).cache,
                           apps, i + 1, q)

RECURSIVE respond_states(_, _, _)
\* state = get_state(app.id); if not state: state = init_state(app), for apps[i..]
respond_states(states, apps, i) ==
    IF i > Len(apps) THEN states
    ELSE respond_states(EnsureState(states, apps[i]), apps, i + 1)

\* the record the coroutine fetched for a is no longer the one in app_states
Detach(ts, a) ==
    [t \in TaskIds |-> IF ts[t].kind # "idle" /\ ts[t].app = a
                       THEN [ts[t] EXCEPT !.stale = TRUE] ELSE ts[t]]

\* get_apps: apps = load_apps(), then refresh_states(apps)
RefreshCall ==
    /\ Request
    /\ running = 0 /\ FreeSlots # {}
    /\ tasks' = [tasks EXCEPT ![FreeSlot] = [NewTask("refresh", "", "refresh_next", "")
                                               EXCEPT !.idx = 1, !.apps = AppList]]
    /\ running' = FreeSlot
    /\ stop_mid' = [a \in AppIds |-> FALSE]
    /\ UNCHANGED <<cfg, listed, logs, app_states, processes, wsl_ip_cache, os, clock>> /\ ret' = NoRet

\* one turn of `for app in apps` down to the health check; or, the loop over,
\* refresh_states returns and get_apps builds its response
RefreshNext(t) ==
    /\ running = t /\ At(t, "refresh_next")
    /\ IF tasks[t].idx > Len(tasks[t].apps)
       THEN /\ Finish(t)
            /\ app_states' = respond_states(app_states, tasks[t].apps, 1)
            /\ \E q \in [1..Len(tasks[t].apps) -> {"", WslIp}] :
                  /\ \A i \in 1..Len(tasks[t].apps) :
                        q[i] \in QueryAnswers(tasks[t].apps[i])
                  /\ wsl_ip_cache' = respond_cache(wsl_ip_cache, tasks[t].apps, 1, q)
            /\ UNCHANGED processes
       ELSE LET a == tasks[t].apps[tasks[t].idx]
                states == EnsureState(app_states, a)
            IN  /\ app_states' = states
                /\ processes' = reap(processes, os, a)
                /\ running' = t
                /\ IF refresh_skips(states[a].status, a)
                   THEN tasks' = [tasks EXCEPT ![t].idx = @ + 1]
                   ELSE tasks' = [tasks EXCEPT ![t].pc = "check", ![t].ctx = "refresh",
                                               ![t].app = a, ![t].stale = FALSE]
                /\ UNCHANGED wsl_ip_cache
    /\ UNCHANGED <<cfg, listed, logs, calls, os, clock, stop_mid>> /\ ret' = NoRet

\* refresh_states after check_health(app, timeout=3): the verdict is written to the
\* record fetched before the check, which may no longer be the one in app_states
RefreshSettle(t) ==
    /\ running = t /\ At(t, "checked") /\ tasks[t].ctx = "refresh"
    /\ LET a == tasks[t].app
           v == refresh_verdict(tasks[t].healthy, processes, a)
       IN  /\ app_states' = IF tasks[t].stale THEN app_states
                            ELSE SetState(app_states, a, v.status, v.message)
           /\ ret' = [NoRet EXCEPT !.op = "refresh", !.app = a, !.ok = tasks[t].healthy,
                                   !.status = v.status, !.msg = v.message,
                                   !.before = StatusOf(app_states, a)]
    /\ tasks' = [tasks EXCEPT ![t].pc = "refresh_next", ![t].ctx = "", ![t].app = "",
                              ![t].healthy = FALSE, ![t].stale = FALSE, ![t].idx = @ + 1]
    /\ UNCHANGED <<cfg, listed, logs, calls, processes, wsl_ip_cache, os, clock, running, stop_mid>>

(* --------------------------- the specification ------------------------- *)
Next ==
    \/ \E a \in AppIds : LaunchCall(a)
    \/ \E a \in AppIds : StartCall(a)
    \/ \E a \in AppIds : StopApp(a)
    \/ RefreshCall
    \/ \E t \in TaskIds : CheckHealthBegin(t)
    \/ \E t \in TaskIds : CheckHealthEnd(t)
    \/ \E t \in TaskIds : LaunchQuickDone(t)
    \/ \E t \in TaskIds : StartBegin(t)
    \/ \E t \in TaskIds : StartSpawn(t)
    \/ \E t \in TaskIds : StartGraceEnd(t)
    \/ \E t \in TaskIds : PollBegin(t)
    \/ \E t \in TaskIds : WaitTest(t)
    \/ \E t \in TaskIds : WaitChecked(t)
    \/ \E t \in TaskIds : SleepEnd(t)
    \/ \E t \in TaskIds : RefreshNext(t)
    \/ \E t \in TaskIds : RefreshSettle(t)
    \/ \E p \in 1..MaxProcs : ProcExit(p)
    \/ \E p \in 1..MaxProcs : ProcFork(p)
    \/ \E p \in 1..MaxProcs : KidExit(p)
    \/ Tick

Spec == Init /\ [][Next]_vars

TypeOK ==
    /\ running \in 0..MaxTasks
    /\ \A a \in DOMAIN app_states : app_states[a].status \in AppStatus
    /\ Len(os) <= MaxProcs

(* ------------------ check_health on its own (pure function) ------------ *)
\* the definitions check_health is applied to: every combination of probe kinds
CheckDefinitions == {CliApp, WebApp, PortApp, BothApp}

\* the handles of the application: none tracked, or the spawned ones, alive or exited
InitCheck ==
    /\ \E d \in CheckDefinitions : cfg = [a \in {AppSeq[1]} |-> d]
    /\ \E n \in 0..MaxProcs :
          /\ os \in [1..n -> {NewProcess(AppSeq[1]), [NewProcess(AppSeq[1]) EXCEPT !.alive = FALSE]}]
          /\ processes \in {[a \in {} |-> <<>>], [a \in {AppSeq[1]} |-> [i \in 1..n |-> i]]}
    /\ listed = <<AppSeq[1]>>
    /\ logs = [a \in {} |-> <<>>]
    /\ app_states = [a \in {} |-> init_state(a)]
    /\ wsl_ip_cache = [d \in {} |-> [ip |-> "", ts |-> 0]]
    /\ clock = 0
    /\ tasks = [t \in TaskIds |-> IdleTask]
    /\ running = 0
    /\ ret = NoRet
    /\ calls = 0
    /\ stop_mid = [a \in AppIds |-> FALSE]

\* check_health(app) from its call to its return, with what its probes answered
CheckHealthCall(a) ==
    /\ running = 0
    /\ \E statuses \in [1..Len(cfg[a].health) -> StatusCodes],
          v4 \in [1..Len(cfg[a].ports) -> BOOLEAN],
          v6 \in [1..Len(cfg[a].ports) -> BOOLEAN] :
          ret' = [NoRet EXCEPT !.op = "check", !.app = a,
                               !.ok = check_health(statuses, v4, v6, Liveness(a)),
                               !.inputs = <<statuses, v4, v6, Liveness(a)>>]
    /\ UNCHANGED <<cfg, listed, logs, calls, app_states, processes, wsl_ip_cache, os, clock, tasks, running, stop_mid>>

NextCheck ==
    \/ \E a \in DOMAIN cfg : CheckHealthCall(a)
    \/ \E p \in 1..MaxProcs : ProcExit(p)

SpecCheck == InitCheck /\ [][NextCheck]_vars

(* ------------------------------- claims -------------------------------- *)

\* C1: check_health follows the truth table.  Without HTTP probes and without ports the
\* verdict is "some tracked handle is alive"; with HTTP probes only it is "some probe
\* answered with a status below 500" (a probe that errors does not pass); with ports
\* only it is "every port accepts a connection on 127.0.0.1 or on ::1"; with both it
\* is the conjunction of the two.
C1_TruthTable ==
    ret.op = "check" =>
        LET statuses == ret.inputs[1]
            v4 == ret.inputs[2]
            v6 == ret.inputs[3]
            alive == ret.inputs[4]
            http_verdict == \E i \in 1..Len(statuses) : statuses[i] \in {200, 499}
            port_verdict == \A i \in 1..Len(v4) : v4[i] \/ v6[i]
            liveness == \E i \in 1..Len(alive) : alive[i]
        IN  ret.ok = CASE Len(statuses) = 0 /\ Len(v4) = 0 -> liveness
                       [] Len(statuses) > 0 /\ Len(v4) = 0 -> http_verdict
                       [] Len(statuses) = 0 /\ Len(v4) > 0 -> port_verdict
                       [] OTHER -> http_verdict /\ port_verdict

\* both kinds configured, the HTTP probe answers 500 and the port is open: unhealthy
C1_Witness ==
    /\ ret.op = "check" /\ ~ret.ok
    /\ Len(ret.inputs[1]) > 0 /\ Len(ret.inputs[2]) > 0
    /\ \A i \in 1..Len(ret.inputs[1]) : ret.inputs[1][i] = 500
    /\ \A i \in 1..Len(ret.inputs[2]) : ret.inputs[2][i]

\* C2: when stop_app(id) returns, the state record of id (if there is one) has status
\* Stopped, whatever the status was and whether or not handles were tracked.
C2_StopLeavesStopped ==
    ret.op = "stop" /\ ret.app \in DOMAIN app_states => app_states[ret.app].status = Stopped

\* C3: stop_app returns True; a terminate() or kill() that fails for one handle does
\* not keep the loop from the remaining handles, and the entry of id is removed.
C3_StopBestEffort ==
    ret.op = "stop" =>
        /\ ret.ok
        /\ ret.visited = ret.had
        /\ ret.app \notin DOMAIN processes

\* two handles were tracked and a termination failed
C3_Witness ==
    /\ ret.op = "stop" /\ ret.path = "tracked"
    /\ ret.had = 2 /\ ret.faults > 0 /\ ret.visited = 2

\* C4: once a stop_app(id) that ran while the health polls of id were suspended and
\* those polls have all finished, the status of id is Stopped.
C4_StopSupersedesPoll ==
    \A a \in AppIds :
        stop_mid[a] /\ InFlight(a) = {} /\ a \in DOMAIN app_states
            => app_states[a].status = Stopped

\* C5: after a stop_app(id) in which no terminate() and no kill() failed, no process
\* of the tree of any handle that was tracked for id is alive.
C5_TreeTerminated ==
    ret.op = "stop" /\ ret.faults = 0 => ret.survivors = {}

C7_ExitedImmediately ==
    ret.rc # None =>
        /\ ret.op \in {"launch", "start"}
        /\ ~ret.ok
        /\ ret.path = "exited"
        /\ ret.msg = Msg("Process exited immediately with code", ret.rc)
        /\ ret.status = Error /\ app_states[ret.app].status = Error
        /\ app_states[ret.app].message = Msg("Process exited immediately with code", ret.rc)
        /\ ret.open_urls = <<>>

\* launch_app of a start command that exits with code 1
C7_Witness ==
    /\ ret.op = "launch" /\ ret.rc = "1" /\ ~ret.ok

\* the steps 1..n in their order
InOrder(spawned) == spawned = [i \in 1..Len(spawned) |-> i]

\* C8: a start_app call spawns its steps in the declared order; it is about to spawn
\* step k only when the steps 1..k-1 were spawned and each was alive at its check after
\* 0.2 s; and a call that fails has spawned nothing beyond the step that failed.
C8_SequentialFailFast ==
    /\ \A t \in TaskIds : tasks[t].kind \in {"launch", "start"} =>
          /\ InOrder(tasks[t].spawned)
          /\ tasks[t].pc = "spawn" =>
                /\ Len(tasks[t].spawned) = tasks[t].step - 1
                /\ tasks[t].survived = tasks[t].step - 1
          /\ tasks[t].pc = "grace" =>
                /\ Len(tasks[t].spawned) = tasks[t].step
                /\ tasks[t].survived = tasks[t].step - 1
    /\ ret.op \in {"launch", "start"} =>
          /\ InOrder(ret.spawned)
          /\ ret.path = "exited" => Len(ret.spawned) = ret.survived + 1
          /\ ret.path = "raised" => Len(ret.spawned) \in {ret.survived, ret.survived + 1}
          /\ ret.path \in {"started", "healthy", "timeout"} =>
                /\ Len(ret.spawned) = cfg[ret.app].start
                /\ ret.survived = cfg[ret.app].start

\* the first of two steps has exited at its check: the second step was never spawned
C8_Witness ==
    /\ ret.op = "start" /\ ret.path = "exited"
    /\ cfg[ret.app].start = 2 /\ ret.spawned = <<1>>

\* C9: a launch_app whose quick check_health is healthy returns success and "already
\* running" with the resolved URLs, sets the status Running, spawns nothing, schedules
\* no poll and does not touch self.processes.
C9_ShortCircuit ==
    ret.op = "launch" /\ ret.quick =>
        /\ ret.ok /\ ret.path = "short"
        /\ ret.msg = Msg("Application is already running", "")
        /\ ret.status = Running /\ app_states[ret.app].status = Running
        /\ ret.spawned = <<>>
        /\ ~ret.sched
        /\ ret.same
        /\ \E ip \in {"", WslIp}, reach \in ReachAnswers(ret.app), listener \in ListenerAnswers(ret.app) :
              ret.open_urls = resolve_open_urls(cfg[ret.app], ip, reach, listener)

\* the short cut is taken while handles of an earlier start are tracked
C9_Witness ==
    /\ ret.op = "launch" /\ ret.quick
    /\ ret.app \in DOMAIN processes /\ Len(processes[ret.app]) > 0

\* C10: a launch_app that is not short-circuited returns an error without URLs when
\* start_app fails; after start_app it returns success with status Running exactly
\* when wait_for_health saw a passing check, and else an error with status Error,
\* the timeout message and no URLs.  No error result carries a URL.
C10_LaunchOutcome ==
    ret.op = "launch" =>
        /\ ~ret.ok => ret.open_urls = <<>>
        /\ ~ret.quick =>
              /\ ret.path \in {"workspace", "raised", "exited", "healthy", "timeout"}
              /\ ret.path \in {"workspace", "raised", "exited"} => ~ret.ok /\ ~ret.sched
              /\ ret.path \in {"healthy", "timeout"} =>
                    /\ ret.sched
                    /\ ret.ok <=> ret.observed
                    /\ ret.ok => /\ ret.status = Running
                                 /\ ret.msg = Msg("Application started successfully", "")
                    /\ ~ret.ok => /\ ret.status = Error
                                  /\ ret.msg = TimeoutMsg(max_timeout(ret.app))

\* the health-wait of a launch with spawned steps runs into its timeout
C10_Witness ==
    /\ ret.op = "launch" /\ ret.path = "timeout"
    /\ Len(ret.spawned) > 0 /\ ~ret.ok

C12_NoEmptyEntry ==
    running = 0 => \A a \in DOMAIN processes : Len(processes[a]) > 0

\* C14: when refresh_states has re-evaluated an application, its status is Running if
\* check_health passed, else Starting if a handle is tracked for it, else Stopped,
\* whatever the status was before.
C14_RefreshVerdict ==
    ret.op = "refresh" =>
        /\ app_states[ret.app].status = ret.status
        /\ ret.status = IF ret.ok THEN Running
                        ELSE IF ret.app \in DOMAIN processes /\ Len(processes[ret.app]) > 0
                        THEN Starting
                        ELSE Stopped
        /\ app_states[ret.app].last_check = Now

\* an application in Error, unhealthy and with no handle, is Stopped after the refresh
C14_Witness ==
    /\ ret.op = "refresh" /\ ret.before = Error /\ ~ret.ok
    /\ app_states[ret.app].status = Stopped

\* C15: a turn of refresh_states for an application that is Starting and declares an
\* HTTP probe or a port makes no health check and leaves the state record (status,
\* message, last_check) as it is; it only reaps the handles that have exited.
C15_RefreshSkipsStarting ==
    [][\A t \in TaskIds :
          /\ RefreshNext(t)
          /\ tasks[t].idx <= Len(AppList)
          /\ AppList[tasks[t].idx] \in DOMAIN app_states
          /\ app_states[AppList[tasks[t].idx]].status = Starting
          /\ has_http_checks(AppList[tasks[t].idx]) \/ has_port_checks(AppList[tasks[t].idx])
          => /\ app_states' = app_states
             /\ processes' = reap(processes, os, AppList[tasks[t].idx])
             /\ \E u \in TaskIds : /\ tasks'[u].kind = "refresh" /\ tasks'[u].pc = "refresh_next"
                                   /\ tasks'[u].idx = tasks[t].idx + 1]_vars

\* refresh has passed over an application that a start has put in Starting, and has
\* reaped the handle that had exited
C15_Witness ==
    \E t \in TaskIds :
        /\ tasks[t].kind = "refresh" /\ tasks[t].pc = "refresh_next" /\ tasks[t].idx = 2
        /\ running = t
        /\ app_states[AppSeq[1]].status = Starting
        /\ app_states[AppSeq[1]].message = Msg("Starting application...", "")
        /\ has_http_checks(AppSeq[1])
        /\ AppSeq[1] \notin DOMAIN processes
        /\ Len(os) > 0

\* C16: wait_for_health reports a timeout only after it has called check_health at
\* least once.
C16_CheckBeforeTimeout ==
    ret.op \in {"launch", "poll"} /\ ret.path = "timeout" => ret.checked

(* ------------------- resolve_open_urls as a function ------------------- *)
\* applications whose open lists hold every kind of URL the resolver tells apart
ResolveDefinitions ==
    {WslApp,
     AppDefinition(WslWs, 1, <<>>, <<>>, <<UpperUrl, LoopUrl>>),
     AppDefinition(WslWs, 1, <<>>, <<>>, <<FileUrl, LocalUrl>>),
     AppDefinition(WslWs, 1, <<>>, <<>>, <<NoPortUrl, LocalUrl>>),
     AppDefinition(WslWs, 1, <<>>, <<>>, <<BadPortUrl, LoopUrl>>),
     AppDefinition(PlainWs, 1, <<>>, <<>>, <<LoopUrl, RemoteUrl>>)}

InitResolve ==
    /\ \E d \in ResolveDefinitions : cfg = [a \in {AppSeq[1]} |-> d]
    /\ listed = <<AppSeq[1]>>
    /\ logs = [a \in {} |-> <<>>]
    /\ app_states = [a \in {} |-> init_state(a)]
    /\ processes = [a \in {} |-> <<>>]
    /\ wsl_ip_cache = [d \in {} |-> [ip |-> "", ts |-> 0]]
    /\ os = <<>>
    /\ clock = 0
    /\ tasks = [t \in TaskIds |-> IdleTask]
    /\ running = 0
    /\ ret = NoRet
    /\ calls = 0
    /\ stop_mid = [a \in AppIds |-> FALSE]

\* resolve_open_urls(app) from its call to its return, as get_apps calls it for each
\* listed application. reach[i] and listener[i] are what the TCP probe and the listener
\* table answer for the port of the i-th URL; nothing is probed without an IP, and no
\* listener is looked up for a port that is reachable. Of the call just made ret keeps: at, the
\* time of the call; queried, whether it ran the bridge query; since, the time of the
\* latest earlier call that ran it (-1: none); cached, the timestamp the cache held for
\* the distribution when the call began (-1: none)
ResolveCall(a) ==
    /\ running = 0
    /\ \E q \in QueryAnswers(a),
          reach \in [1..Len(cfg[a].open) -> BOOLEAN],
          listener \in [1..Len(cfg[a].open) -> Listeners] :
          LET distro == cfg[a].workspace.distro
              r == _get_wsl_ip(wsl_ip_cache, distro, clock, q)
          IN  /\ \A i \in 1..Len(cfg[a].open) :
                    /\ IpFor(a, q) = "" => ~reach[i]
                    /\ IpFor(a, q) = "" \/ reach[i] => listener[i] = ""
              /\ ret' = [NoRet EXCEPT
                            !.op = "resolve", !.app = a,
                            !.open_urls = resolve_open_urls(cfg[a], IpFor(a, q), reach, listener),
                            !.inputs = <<IpFor(a, q), reach, listener>>,
                            !.queried = (distro # "" /\ r.queried),
                            !.at = clock,
                            !.since = IF ret.queried THEN ret.at ELSE ret.since,
                            !.cached = IF distro \in DOMAIN wsl_ip_cache
                                       THEN wsl_ip_cache[distro].ts ELSE -1]
              /\ wsl_ip_cache' = CacheAfter(a, q)
    /\ UNCHANGED <<cfg, listed, logs, calls, app_states, processes, os, clock, tasks, running, stop_mid>>

\* time passes between two calls of the resolver
Wait(d) ==
    /\ clock + d <= MaxClock
    /\ clock' = clock + d
    /\ UNCHANGED <<cfg, listed, logs, calls, app_states, processes, wsl_ip_cache, os, tasks, running, ret, stop_mid>>

NextResolve ==
    \/ \E a \in DOMAIN cfg : ResolveCall(a)
    \/ \E d \in {CacheTtl - 1, CacheTtl} : Wait(d)

SpecResolve == InitResolve /\ [][NextResolve]_vars

\* C17: the WSL IP cache respects its 30 second time-to-live: a resolution call made
\* less than 30 seconds after an earlier call that ran the bridge query for the same
\* distribution does not run the query again, whatever that query answered; a call made
\* 30 seconds or more after the cached timestamp does run it.
C17_CacheTtl ==
    ret.op = "resolve" /\ cfg[ret.app].workspace.distro # ""
    => /\ ret.since >= 0 /\ ret.at - ret.since < CacheTtl => ~ret.queried
       /\ ret.cached >= 0 /\ ret.at - ret.cached >= CacheTtl => ret.queried

\* what may have become of each declared URL in a result: kept as declared, left out,
\* or returned with the host replaced by the IP and nothing else changed
Outcomes(urls) == [1..Len(urls) -> {"keep", "drop", "rewrite"}]

RECURSIVE Assemble(_, _, _, _)
Assemble(urls, outcome, ip, i) ==
    IF i > Len(urls) THEN <<>>
    ELSE (CASE outcome[i] = "keep" -> <<urls[i]>>
            [] outcome[i] = "drop" -> <<>>
            [] outcome[i] = "rewrite" -> <<[urls[i] EXCEPT !.host = ip]>>)
         \o Assemble(urls, outcome, ip, i + 1)

\* a URL that is not http/https, or whose host is not a loopback literal, or that names
\* no port
PassesThrough(u) ==
    \/ u.scheme \notin {"http", "https"}
    \/ u.host \notin {"127.0.0.1", "localhost", "LocalHost"}
    \/ u.port = 0

\* the listener names that are recognized bridge processes
RecognizedBridges == {"wslhost.exe", "WslRelay.exe", "System"}

\* C18: resolve_open_urls returns every declared URL that is not http/https, or whose
\* host is not a loopback literal, or that has no explicit port, unchanged and at its
\* original relative position, whatever the probe and the listener table answer.
C18_PassThrough ==
    ret.op = "resolve"
    => \E outcome \in Outcomes(cfg[ret.app].open) :
          /\ ret.open_urls = Assemble(cfg[ret.app].open, outcome, ret.inputs[1], 1)
          /\ \A i \in 1..Len(cfg[ret.app].open) :
                PassesThrough(cfg[ret.app].open[i]) => outcome[i] = "keep"

\* a result with the IP known in which a pass-through URL whose port is reachable at
\* the IP comes after a loopback URL that was left out
C18_Witness ==
    /\ ret.op = "resolve" /\ ret.inputs[1] = WslIp
    /\ cfg[ret.app].open = <<LoopUrl, RemoteUrl>>
    /\ ret.inputs[2] = <<FALSE, TRUE>>
    /\ ret.inputs[3][1] = "node.exe"
    /\ ret.open_urls = <<RemoteUrl>>

\* C19: with a WSL workspace and a known IP, a loopback http(s) URL is left out of the
\* result if and only if IP:port is unreachable and the listener on that port is not a
\* recognized bridge process; when the port is unreachable and the listener is a bridge
\* process, or nothing listens, the URL is returned unchanged.
C19_OmitIffShadowed ==
    ret.op = "resolve" /\ cfg[ret.app].workspace.distro # "" /\ ret.inputs[1] # ""
    => \E outcome \in Outcomes(cfg[ret.app].open) :
          /\ ret.open_urls = Assemble(cfg[ret.app].open, outcome, ret.inputs[1], 1)
          /\ \A i \in 1..Len(cfg[ret.app].open) :
                LET u == cfg[ret.app].open[i]
                    unreachable == ~ret.inputs[2][i]
                    name == ret.inputs[3][i]
                IN  ~PassesThrough(u) /\ u.port # BadPort
                    => /\ outcome[i] = "drop"
                          <=> unreachable /\ name # "" /\ name \notin RecognizedBridges
                       /\ unreachable /\ (name = "" \/ name \in RecognizedBridges)
                          => outcome[i] = "keep"

\* two unreachable loopback URLs in one call: the one whose port a bridge process whose
\* name only starts with "wsl" listens on is returned, the one whose port another
\* process listens on is left out
C19_Witness ==
    /\ ret.op = "resolve" /\ ret.inputs[1] = WslIp
    /\ cfg[ret.app].open = <<UpperUrl, LoopUrl>>
    /\ ret.inputs[2] = <<FALSE, FALSE>>
    /\ ret.inputs[3] = <<"WslRelay.exe", "node.exe">>
    /\ ret.open_urls = <<UpperUrl>>

\* C20: a URL is rewritten to the IP only when the TCP probe of IP:port succeeded in
\* that same call, also when the IP came from the cache; the rewritten URL differs from
\* the declared one only in its host.
C20_RewriteOnlyReachable ==
    ret.op = "resolve"
    => \E outcome \in Outcomes(cfg[ret.app].open) :
          /\ ret.open_urls = Assemble(cfg[ret.app].open, outcome, ret.inputs[1], 1)
          /\ \A i \in 1..Len(cfg[ret.app].open) :
                outcome[i] = "rewrite"
                => /\ ret.inputs[2][i]
                   /\ ~PassesThrough(cfg[ret.app].open[i])
                   /\ ret.inputs[1] # ""

\* a call that took the IP from the cache, found one port reachable and the other not:
\* the URL with user name and password is rewritten, user-info and all; the other is
\* returned as declared
C20_Witness ==
    /\ ret.op = "resolve" /\ ~ret.queried /\ ret.inputs[1] = WslIp
    /\ cfg[ret.app].open = <<UpperUrl, LoopUrl>>
    /\ ret.inputs[2] = <<FALSE, TRUE>>
    /\ ret.open_urls = <<UpperUrl, [LoopUrl EXCEPT !.host = WslIp]>>

(* ------------------ get_apps, add_app and delete_app ------------------- *)
DeleteDefinitions == {CliApp, BothApp, WslApp}

\* both applications are configured; no request has been made
InitDelete ==
    /\ cfg \in [AppIds -> DeleteDefinitions]
    /\ listed = AppSeq
    /\ logs = [a \in {} |-> <<>>]
    /\ app_states = [a \in {} |-> init_state(a)]
    /\ processes = [a \in {} |-> <<>>]
    /\ wsl_ip_cache = [d \in {} |-> [ip |-> "", ts |-> 0]]
    /\ os = <<>>
    /\ clock = 0
    /\ tasks = [t \in TaskIds |-> IdleTask]
    /\ running = 0
    /\ ret = NoRet
    /\ calls = 0
    /\ stop_mid = [a \in AppIds |-> FALSE]

\* main.py delete_app(app_id): stop_app, which does not suspend; then
\* config_manager.delete_app, which answers True whenever the list could be saved; then
\* the record is removed from app_states. A coroutine that fetched the record before
\* keeps the removed object
DeleteApp(a) ==
    /\ running = 0 /\ Request
    /\ stop_mid' = [stop_mid EXCEPT ![a] = MidPoll(a) /\ a \in DOMAIN processes]
    /\ \E saved \in BOOLEAN, fs \in [1..Len(Lookup(processes, a)) -> Faults] :
          LET procs == Lookup(processes, a)
              r == stop_loop(os, procs, fs, 1)
              stopped == IF a \in DOMAIN processes /\ a \in DOMAIN app_states
                         THEN SetState(app_states, a, Stopped, Msg("Application stopped", ""))
                         ELSE app_states
          IN  /\ os' = IF a \in DOMAIN processes THEN r.os ELSE os
              /\ processes' = IF a \in DOMAIN processes THEN Del(processes, a) ELSE processes
              /\ IF saved
                 THEN /\ listed' = SelectSeq(listed, LAMBDA x : x # a)
                      /\ app_states' = IF a \in DOMAIN stopped THEN Del(stopped, a) ELSE stopped
                      /\ tasks' = Detach(tasks, a)
                 ELSE /\ app_states' = stopped
                      /\ UNCHANGED <<listed, tasks>>
              /\ ret' = [NoRet EXCEPT !.op = "delete", !.app = a, !.ok = saved]
    /\ UNCHANGED <<cfg, logs, wsl_ip_cache, clock, running>>

\* main.py add_app: config_manager.add_app refuses an id the list holds and appends the
\* application otherwise; then init_state puts a new record in app_states. An id is
\* added with the definition cfg holds for it
AddApp(a) ==
    /\ running = 0 /\ Request
    /\ a \in DOMAIN cfg
    /\ \E saved \in BOOLEAN :
          /\ IF a \notin Range(listed) /\ saved
             THEN /\ listed' = Append(listed, a)
                  /\ app_states' = Put(app_states, a, init_state(a))
                  /\ tasks' = Detach(tasks, a)
             ELSE UNCHANGED <<listed, app_states, tasks>>
          /\ ret' = [NoRet EXCEPT !.op = "add", !.app = a,
                                  !.ok = (a \notin Range(listed) /\ saved)]
    /\ UNCHANGED <<cfg, logs, processes, wsl_ip_cache, os, clock, running, stop_mid>>

NextDelete ==
    \/ RefreshCall
    \/ \E t \in TaskIds : CheckHealthBegin(t)
    \/ \E t \in TaskIds : CheckHealthEnd(t)
    \/ \E t \in TaskIds : RefreshNext(t)
    \/ \E t \in TaskIds : RefreshSettle(t)
    \/ \E a \in AppIds : DeleteApp(a)
    \/ \E a \in AppIds : AddApp(a)
    \/ Tick

SpecDelete == InitDelete /\ [][NextDelete]_vars

\* C13: app_states holds a record only for an application the configuration lists:
\* once an application has been deleted no record for its identifier exists until it is
\* added again, also while a refresh that began before the deletion is in flight.
C13_NoRecordAfterDelete == \A a \in DOMAIN app_states : a \in Range(listed)

\* C21: resolve_open_urls always returns, and degrades to the declared URLs: for a
\* workspace that is not a WSL network path, or when the bridge query gave no address,
\* the result is the declared open list, unchanged and in order; a URL that fails to
\* parse is returned as declared at its place while the other URLs are still resolved.
C21_Degrades ==
    ret.op = "resolve"
    => LET urls == cfg[ret.app].open
       IN  /\ cfg[ret.app].workspace.distro = "" \/ ret.inputs[1] = "" => ret.open_urls = urls
           /\ \E outcome \in Outcomes(urls) :
                 /\ ret.open_urls = Assemble(urls, outcome, ret.inputs[1], 1)
                 /\ \A i \in 1..Len(urls) :
                       /\ urls[i].port = BadPort => outcome[i] = "keep"
                       /\ /\ cfg[ret.app].workspace.distro # "" /\ ret.inputs[1] # ""
                          /\ ~PassesThrough(urls[i]) /\ urls[i].port # BadPort
                          /\ ret.inputs[2][i]
                          => outcome[i] = "rewrite"

\* a call with the IP known and every port reachable: the URL whose port does not parse
\* is returned as declared, the loopback URL after it is rewritten
C21_Witness ==
    /\ ret.op = "resolve" /\ ret.inputs[1] = WslIp
    /\ cfg[ret.app].open = <<BadPortUrl, LoopUrl>>
    /\ ret.inputs[2] = <<TRUE, TRUE>>
    /\ ret.open_urls = <<BadPortUrl, [LoopUrl EXCEPT !.host = WslIp]>>

(* ----------------------------- the log file ---------------------------- *)
\* a line of a log file: stamp is the time of its "[YYYY-MM-DD HH:MM:SS] " prefix, -1
\* for a line without one; no is the line's number in the file
Line(stamp, no, text) == [stamp |-> stamp, no |-> no, text |-> text]

\* what _write_log is called with
Messages == {"Executing: ...", "Application stopped"}

\* an application with a log file that _write_log began, and up to MaxProcs processes
\* that start_app spawned with their output redirected into that file; or no log file
\* and no process yet
InitLog ==
    /\ \E d \in {CliApp} : cfg = [a \in {AppSeq[1]} |-> d]
    /\ listed = <<AppSeq[1]>>
    /\ \E n \in 0..MaxProcs :
          /\ os = [i \in 1..n |-> NewProcess(AppSeq[1])]
          /\ processes = IF n = 0 THEN [a \in {} |-> <<>>] ELSE [a \in {AppSeq[1]} |-> [i \in 1..n |-> i]]
          /\ logs = IF n = 0 THEN [a \in {} |-> <<>>]
                    ELSE [a \in {AppSeq[1]} |-> <<Line(0, 1, "Executing: ...")>>]
    /\ app_states = [a \in {} |-> init_state(a)]
    /\ wsl_ip_cache = [d \in {} |-> [ip |-> "", ts |-> 0]]
    /\ clock = 0
    /\ tasks = [t \in TaskIds |-> IdleTask]
    /\ running = 0
    /\ ret = NoRet
    /\ calls = 0
    /\ stop_mid = [a \in AppIds |-> FALSE]

\* _write_log(app_id, message): the file is opened in append mode, which creates it,
\* and one line "[timestamp] message" is written; a failure is printed and swallowed
WriteLog(a, message) ==
    /\ running = 0
    /\ Len(Lookup(logs, a)) < MaxLog
    /\ \E written \in BOOLEAN :
          logs' = IF written
                  THEN Put(logs, a, Append(Lookup(logs, a),
                                           Line(clock, Len(Lookup(logs, a)) + 1, message)))
                  ELSE logs
    /\ ret' = NoRet
    /\ UNCHANGED <<cfg, listed, calls, app_states, processes, wsl_ip_cache, os, clock, tasks, running, stop_mid>>

\* a process start_app spawned writes a line to its stdout or stderr, which Popen
\* redirected into the log file opened at line 439
ProcOutput(p) ==
    /\ running = 0
    /\ p \in 1..Len(os) /\ os[p].alive
    /\ Len(Lookup(logs, os[p].app)) < MaxLog
    /\ logs' = Put(logs, os[p].app,
                   Append(Lookup(logs, os[p].app),
                          Line(-1, Len(Lookup(logs, os[p].app)) + 1, "output")))
    /\ ret' = NoRet
    /\ UNCHANGED <<cfg, listed, calls, app_states, processes, wsl_ip_cache, os, clock, tasks, running, stop_mid>>

\* all_lines[-lines:], as Python slices: a negative start counts from the end and is
\* clipped at the first line; -0 is 0, the first line
tail(all_lines, lines) ==
    LET start == IF -lines < 0 THEN Max({Len(all_lines) - lines, 0}, 0)
                 ELSE Min({-lines, Len(all_lines)}, Len(all_lines))
    IN  SubSeq(all_lines, start + 1, Len(all_lines))

\* read_log(app_id, lines): found is FALSE for the "No log file found" placeholder, ok is
\* FALSE for the "Error reading log" text; text holds the lines returned
ReadLog(a, lines) ==
    /\ running = 0
    /\ \E readable \in BOOLEAN :
          ret' = [NoRet EXCEPT !.op = "read_log", !.app = a, !.lines = lines,
                               !.found = (a \in DOMAIN logs),
                               !.ok = (a \in DOMAIN logs /\ readable),
                               !.text = IF a \in DOMAIN logs /\ readable
                                        THEN tail(logs[a], lines) ELSE <<>>]
    /\ UNCHANGED <<cfg, listed, logs, calls, app_states, processes, wsl_ip_cache, os, clock, tasks, running, stop_mid>>

NextLog ==
    \/ \E a \in AppIds, m \in Messages : WriteLog(a, m)
    \/ \E p \in 1..MaxProcs : ProcOutput(p)
    \/ \E p \in 1..MaxProcs : ProcExit(p)
    \/ \E a \in AppIds, lines \in 0..MaxLines : ReadLog(a, lines)

SpecLog == InitLog /\ [][NextLog]_vars

\* the last n lines of a file, the whole file when it has fewer
LastLines(all_lines, n) ==
    SubSeq(all_lines, Max({Len(all_lines) - n, 0}, 0) + 1, Len(all_lines))

\* C22: read_log(id, lines) returns the last `lines` lines of the log of id, in order,
\* for every lines >= 0 and every log length; it returns a placeholder when there is no
\* log file and an error text when reading fails.
C22_LastLines ==
    ret.op = "read_log"
    => /\ ret.found <=> ret.app \in DOMAIN logs
       /\ ret.ok => /\ ret.text = LastLines(logs[ret.app], ret.lines)
                    /\ Len(ret.text) <= ret.lines

\* C23: the log file of an application is append-only and every line of it begins with
\* a [YYYY-MM-DD HH:MM:SS] timestamp, the lines that come from the output of the spawned
\* processes included.
C23_EveryLineStamped ==
    \A a \in DOMAIN logs : \A i \in 1..Len(logs[a]) : logs[a][i].stamp >= 0

(* ------------------- start_app and its background poll ------------------ *)
\* the steps the coroutine in slot t can take
Steps(t) ==
    \/ StartBegin(t) \/ StartSpawn(t) \/ StartGraceEnd(t) \/ PollBegin(t)
    \/ CheckHealthBegin(t) \/ CheckHealthEnd(t)
    \/ WaitTest(t) \/ WaitChecked(t) \/ SleepEnd(t)

\* start_app is called, and nothing else: no launch, no refresh, no stop
NextPoll ==
    \/ \E a \in AppIds : StartCall(a)
    \/ \E t \in TaskIds : Steps(t)
    \/ \E p \in 1..MaxProcs : ProcExit(p)
    \/ \E p \in 1..MaxProcs : ProcFork(p)
    \/ \E p \in 1..MaxProcs : KidExit(p)

\* the event loop runs every coroutine that is ready: a coroutine holding the loop
\* goes on to its next await, a sleep ends, a probe answers or times out
SpecPoll == Init /\ [][NextPoll]_vars /\ \A t \in TaskIds : WF_vars(Steps(t))

\* C24: after a start that spawned all its steps, with no launch, refresh or stop ever
\* called, the background poll ends and leaves the status Running (a check passed) or
\* Error (health timeout); it ends within the derived max timeout plus one poll.
C24_PollSettles ==
    /\ [](ret.op = "poll"
          => IF ret.ok THEN ret.elapsed < max_timeout(ret.app)
             ELSE ret.elapsed < Max({max_timeout(ret.app), 0}, 0) + RetryInterval)
    /\ \A a \in AppIds :
          (ret.op = "start" /\ ret.ok /\ ret.app = a)
          ~> (ret.op = "poll" /\ ret.app = a /\ StatusOf(app_states, a) \in {Running, Error})

\* the poll of an application with a probe gave up after its timeout and set Error
C24_Witness ==
    /\ ret.op = "poll" /\ ~ret.ok /\ ret.checked
    /\ has_http_checks(ret.app)
    /\ ret.elapsed >= max_timeout(ret.app)
    /\ app_states[ret.app].status = Error

(* --------------------------- periodic refresh -------------------------- *)
\* get_apps is requested again and again, one request at a time
PeriodicRefresh ==
    /\ running = 0 /\ FreeSlots # {}
    /\ \A t \in TaskIds : tasks[t].kind # "refresh"
    /\ tasks' = [tasks EXCEPT ![FreeSlot] = [NewTask("refresh", "", "refresh_next", "")
                                               EXCEPT !.idx = 1, !.apps = AppList]]
    /\ running' = FreeSlot
    /\ stop_mid' = [a \in AppIds |-> FALSE]
    /\ UNCHANGED <<cfg, listed, logs, calls, app_states, processes, wsl_ip_cache, os, clock>> /\ ret' = NoRet

\* the steps the coroutine in slot t can take, those of refresh_states included
RefreshSteps(t) == Steps(t) \/ RefreshNext(t) \/ RefreshSettle(t)

\* applications are started, their processes exit when they do, and get_apps keeps
\* being requested; no launch and no stop
NextRefresh ==
    \/ \E a \in AppIds : StartCall(a)
    \/ PeriodicRefresh
    \/ \E t \in TaskIds : RefreshSteps(t)
    \/ \E p \in 1..MaxProcs : ProcExit(p)
    \/ \E p \in 1..MaxProcs : ProcFork(p)
    \/ \E p \in 1..MaxProcs : KidExit(p)

\* the event loop runs every ready coroutine, and the next get_apps always comes
SpecRefresh ==
    Init /\ [][NextRefresh]_vars
         /\ \A t \in TaskIds : WF_vars(RefreshSteps(t))
         /\ SF_vars(PeriodicRefresh)

\* no start_app or _poll_health of a is in flight
NoStartInFlight(a) ==
    \A t \in TaskIds : tasks[t].kind \in {"start", "poll", "launch"} => tasks[t].app # a

\* every process spawned for a has exited
AllExited(a) == \A p \in 1..Len(os) : os[p].app = a => ~os[p].alive

\* C25: under periodic refresh an application does not stay Starting forever: a status
\* Starting that refresh set (no start or poll of the application is in flight) is moved
\* to Stopped by later refreshes once all its processes have exited, or to Running, also
\* for an application that declares HTTP probes or ports.
C25_RefreshLeavesStarting ==
    \A a \in AppIds :
        (StatusOf(app_states, a) = Starting /\ NoStartInFlight(a) /\ AllExited(a))
        ~> (StatusOf(app_states, a) # Starting)

\* the coroutines that are inside the loop of wait_for_health for a
HealthWaits(a) ==
    {t \in TaskIds : /\ tasks[t].kind \in {"launch", "poll"} /\ tasks[t].app = a
                     /\ \/ tasks[t].pc \in {"wait_test", "sleep"}
                        \/ tasks[t].pc \in {"check", "probing", "checked"} /\ tasks[t].ctx = "wait"}

\* C26: the health-wait polls of one application are serialized, also when launch is
\* used: at no time are two wait_for_health loops (the one of launch_app and the one of
\* the background _poll_health that start_app scheduled) polling the same application.
C26_OneHealthWait ==
    calls <= 1 => \A a \in AppIds : Cardinality(HealthWaits(a)) <= 1

\* C27: the step in which a health-wait gives up after a successful start, in
\* launch_app or in _poll_health, changes the state record of its application and
\* nothing else of the manager: self.processes is as before, no process is
\* terminated, and the other applications' records, the IP cache and the
\* configuration are untouched.
C27_TimeoutFrame ==
    [][(/\ ret'.op \in {"launch", "poll"}
        /\ ret'.path = "timeout") =>
           /\ processes' = processes
           /\ os' = os
           /\ DOMAIN app_states' = DOMAIN app_states
           /\ \A b \in DOMAIN app_states : b # ret'.app => app_states'[b] = app_states[b]
           /\ wsl_ip_cache' = wsl_ip_cache
           /\ cfg' = cfg /\ listed' = listed]_vars

\* a background poll has timed out while a handle of its application is tracked and
\* the process behind it is alive
C27_Witness ==
    /\ ret.op = "poll" /\ ret.path = "timeout"
    /\ ret.app \in DOMAIN processes
    /\ \E i \in 1..Len(processes[ret.app]) : Alive(os, processes[ret.app][i])

\* the handles of `a` that p.poll() reports alive, in the order they are tracked
StillAlive(procs, osv, a) ==
    IF a \in DOMAIN procs THEN SelectSeq(procs[a], LAMBDA p : Alive(osv, p)) ELSE <<>>

\* C28: the turn of refresh_states for an application, before it decides to skip
\* and before it checks health, leaves as tracked handles exactly the handles that
\* were tracked and alive, in their order, and leaves no entry when none was alive.
C28_Reaped ==
    [][\A t \in TaskIds :
          (RefreshNext(t) /\ tasks[t].idx <= Len(tasks[t].apps)) =>
             LET a == tasks[t].apps[tasks[t].idx]
                 kept == StillAlive(processes, os, a)
             IN  /\ tasks'[t].idx = tasks[t].idx + 1 \/ tasks'[t].pc = "check"
                 /\ IF Len(kept) > 0
                    THEN a \in DOMAIN processes' /\ processes'[a] = kept
                    ELSE a \notin DOMAIN processes'
                 /\ \A b \in DOMAIN processes : b # a =>
                        b \in DOMAIN processes' /\ processes'[b] = processes[b]]_vars

(* ------------------------ the timeout of a health-wait ------------------ *)
\* definitions with two probes of different timeouts, with ports only, with a
\* probe and a port, and with neither
TimeoutDefinitions == {WebApp, PortApp, BothApp, CliApp}

InitTimeout ==
    /\ \E d \in TimeoutDefinitions : cfg = [a \in {AppSeq[1]} |-> d]
    /\ listed = <<AppSeq[1]>>
    /\ logs = [a \in {} |-> <<>>]
    /\ app_states = [a \in {} |-> init_state(a)]
    /\ processes = [a \in {} |-> <<>>]
    /\ wsl_ip_cache = [d \in {} |-> [ip |-> "", ts |-> 0]]
    /\ os = <<>>
    /\ clock = 0
    /\ tasks = [t \in TaskIds |-> IdleTask]
    /\ running = 0
    /\ ret = NoRet
    /\ calls = 0
    /\ stop_mid = [a \in AppIds |-> FALSE]

\* launch_app and start_app are called, and nothing else
NextTimeout ==
    \/ \E a \in AppIds : LaunchCall(a)
    \/ \E a \in AppIds : StartCall(a)
    \/ \E t \in TaskIds : LaunchQuickDone(t)
    \/ \E t \in TaskIds : Steps(t)
    \/ \E p \in 1..MaxProcs : ProcExit(p)

SpecTimeout == InitTimeout /\ [][NextTimeout]_vars

\* the largest timeout_sec of a non-empty probe list
LongestProbe(health) == CHOOSE m \in Range(health) : \A x \in Range(health) : x <= m

\* C29: a wait_for_health run by launch_app or by _poll_health has as its timeout the
\* largest timeout_sec of the definition's probes, and 120 when the definition has no
\* probe, whether or not it has ports; a wait that gives up reports that timeout.
C29_WaitTimeout ==
    /\ DefaultTimeout = 120
    /\ \A a \in AppIds : \A t \in HealthWaits(a) :
          tasks[t].max_timeout = IF Len(cfg[a].health) = 0 THEN DefaultTimeout
                                 ELSE LongestProbe(cfg[a].health)
    /\ (ret.op \in {"launch", "poll"} /\ ret.path = "timeout") =>
          /\ Len(cfg[ret.app].health) = 0 => app_states[ret.app].message = TimeoutMsg(120)
          /\ Len(cfg[ret.app].health) > 0 =>
                app_states[ret.app].message = TimeoutMsg(LongestProbe(cfg[ret.app].health))

\* launch_app still waits for an application whose first probe has the shorter
\* timeout, after that timeout has passed
C29_Witness ==
    \E t \in HealthWaits(AppSeq[1]) :
        /\ tasks[t].kind = "launch" /\ cfg[AppSeq[1]] = WebApp
        /\ tasks[t].pc = "sleep" /\ tasks[t].elapsed >= WebApp.health[1]
        /\ tasks[t].max_timeout = 3

\* the background poll of a definition with ports and no probe waits with 120 s
C29_WitnessPorts ==
    \E t \in HealthWaits(AppSeq[1]) :
        /\ tasks[t].kind = "poll" /\ cfg[AppSeq[1]] = PortApp
        /\ tasks[t].pc = "sleep" /\ tasks[t].max_timeout = 120

\* C30: start_app begins only for an application whose status is Stopped or Error (a
\* missing record counts as the Stopped one init_state creates), and when it goes on
\* to its start commands the status is Starting and it has spawned nothing yet.
C30_StartTransition ==
    [][\A t \in TaskIds :
          StartBegin(t) =>
             LET a == tasks[t].app
             IN  /\ EnsureState(app_states, a)[a].status \in {Stopped, Error}
                 /\ tasks'[t].pc = "spawn" =>
                       /\ app_states'[a].status = Starting
                       /\ tasks'[t].spawned = <<>>]_vars

\* a second launch_app is about to run start_app while an earlier launch_app of the
\* same application is inside its health-wait
C30_SecondLaunchStarts ==
    \E t \in TaskIds : \E u \in HealthWaits(tasks[t].app) :
        /\ tasks[t].kind = "launch" /\ tasks[t].pc = "start" /\ running = t
        /\ tasks[u].kind = "launch" /\ u # t
        /\ StatusOf(app_states, tasks[t].app) = Starting

\* the coroutines that hold the event loop with the answer of a check_health of `a`
\* that said healthy, and have not gone on since
JustHealthy(a) ==
    {t \in TaskIds : /\ running = t /\ tasks[t].app = a
                     /\ tasks[t].kind \in {"launch", "poll", "refresh"}
                     /\ tasks[t].pc = "checked" /\ tasks[t].healthy}

\* C31: every step that writes a state record and leaves it Running is the step of a
\* launch_app, _poll_health or refresh_states that holds the event loop with the
\* answer, healthy, of its check_health of that application: nothing ran between the
\* answer and the write, and no unhealthy or missing check leads to Running.
C31_RunningAfterHealthy ==
    [][\A a \in AppIds :
          (/\ a \in DOMAIN app_states'
           /\ app_states'[a].status = Running
           /\ a \in DOMAIN app_states => app_states'[a] # app_states[a])
          => /\ JustHealthy(a) # {}
             /\ \A t \in JustHealthy(a) : tasks'[t] # tasks[t]]_vars

\* refresh_states has just turned an application that was not Running into Running
C31_Witness ==
    /\ ret.op = "refresh" /\ ret.ok /\ ret.before \in {Starting, Stopped, Error}
    /\ app_states[ret.app].status = Running

(* ----------------------- two configured applications -------------------- *)
\* the first application waits for its ports, the second is judged by its processes
PairDefinitions == <<PortApp, CliApp>>

InitPair ==
    /\ cfg = [a \in AppIds |-> IF a = AppSeq[1] THEN PairDefinitions[1] ELSE PairDefinitions[2]]
    /\ listed = AppSeq
    /\ logs = [a \in {} |-> <<>>]
    /\ app_states = [a \in {} |-> init_state(a)]
    /\ processes = [a \in {} |-> <<>>]
    /\ wsl_ip_cache = [d \in {} |-> [ip |-> "", ts |-> 0]]
    /\ os = <<>>
    /\ clock = 0
    /\ tasks = [t \in TaskIds |-> IdleTask]
    /\ running = 0
    /\ ret = NoRet
    /\ calls = 0
    /\ stop_mid = [a \in AppIds |-> FALSE]

\* the requests and the coroutine steps of Spec with both applications in the
\* configuration; of the environment, processes exit
NextPair ==
    \/ \E a \in AppIds : LaunchCall(a)
    \/ \E a \in AppIds : StartCall(a)
    \/ \E a \in AppIds : StopApp(a)
    \/ RefreshCall
    \/ \E t \in TaskIds : LaunchQuickDone(t)
    \/ \E t \in TaskIds : Steps(t)
    \/ \E t \in TaskIds : RefreshNext(t)
    \/ \E t \in TaskIds : RefreshSettle(t)
    \/ \E p \in 1..MaxProcs : ProcExit(p)

SpecPair == InitPair /\ [][NextPair]_vars

\* a step of a workflow of application `a`: the call or a step of launch_app or
\* start_app, a step of its _poll_health, stop_app, or the turn of refresh_states for it
StepOf(a) ==
    \/ LaunchCall(a) \/ StartCall(a) \/ StopApp(a)
    \/ \E t \in TaskIds :
          \/ /\ tasks[t].app = a
             /\ LaunchQuickDone(t) \/ Steps(t) \/ RefreshSettle(t)
          \/ /\ tasks[t].idx \in 1..Len(tasks[t].apps)
             /\ tasks[t].apps[tasks[t].idx] = a
             /\ RefreshNext(t)

\* the state record and the handle entry of `b` are what they were
Untouched(b) ==
    /\ b \in DOMAIN app_states' <=> b \in DOMAIN app_states
    /\ b \in DOMAIN app_states => app_states'[b] = app_states[b]
    /\ b \in DOMAIN processes' <=> b \in DOMAIN processes
    /\ b \in DOMAIN processes => processes'[b] = processes[b]

\* C32: no step of a workflow of one application (launch, start, the background poll,
\* stop, the refresh turn) changes the state record or the handle entry of another.
C32_Independent ==
    [][\A a \in AppIds : \A b \in AppIds \ {a} : StepOf(a) => Untouched(b)]_vars

\* the background poll of one application has written its verdict while the other
\* application is Starting with a live tracked process
C32_Witness ==
    \E a \in AppIds : \E b \in AppIds \ {a} :
        /\ ret.op = "poll" /\ ret.app = a /\ StatusOf(app_states, a) \in {Running, Error}
        /\ StatusOf(app_states, b) = Starting
        /\ b \in DOMAIN processes
        /\ \E i \in 1..Len(processes[b]) : Alive(os, processes[b][i])

\* the processes spawned by start steps that are alive and in no handle list of
\* their application
Orphans ==
    {p \in 1..Len(os) : /\ os[p].alive
                        /\ \A i \in 1..Len(Lookup(processes, os[p].app)) :
                              processes[os[p].app][i] # p}

\* C33: every process spawned by a start step that is still alive is in the handle
\* list of its application, whatever launch, start, stop and refresh have done.
C33_NoOrphan == Orphans = {}

(* ------------------------- launch_app and nothing else ------------------ *)
\* the only requests are launch_app calls: no start_app of its own, no stop, no refresh
NextLaunch ==
    \/ \E a \in AppIds : LaunchCall(a)
    \/ \E t \in TaskIds : LaunchQuickDone(t)
    \/ \E t \in TaskIds : Steps(t)
    \/ \E p \in 1..MaxProcs : ProcExit(p)

SpecLaunch == Init /\ [][NextLaunch]_vars

\* the launch_app calls of `a` that have not returned
LaunchesInFlight(a) == {t \in TaskIds : tasks[t].kind = "launch" /\ tasks[t].app = a}

\* C34: once the one launch_app of an application has returned with the status
\* Running or Error, that status stays as long as no further request is made: the
\* background poll the launch has scheduled does not change it.
C34_VerdictStays ==
    [][\A a \in AppIds :
          (/\ calls = 1 /\ calls' = 1
           /\ LaunchesInFlight(a) = {}
           /\ StatusOf(app_states, a) \in {Running, Error})
          => StatusOf(app_states', a) = StatusOf(app_states, a)]_vars

====
